---- MODULE Spec2Model ----
(***************************************************************************)
(* The analytics pipeline of the Customer-Intelligence-Platform: the SQL   *)
(* stages that derive the dimensional model, the RFM segments, the weekly  *)
(* cohort retention and the product-affinity rules from the events table,  *)
(* and the two builders that derive the same tables for the dashboard      *)
(* (scripts/create_cloud_database.py and app/db_utils.py); further the     *)
(* sessionizer, the feature store, the training set of the propensity      *)
(* model, and the queries of the dashboard pages.                          *)
(*                                                                         *)
(* A table is a set of rows (records).  A row of events carries a row id   *)
(* `rid` (its physical identity), so that two events with equal columns    *)
(* are two rows.  A database is a function from table names to tables; a   *)
(* table exists iff its name is in the domain.                             *)
(*                                                                         *)
(* SQL leaves the order of rows that tie in an ORDER BY unspecified, and   *)
(* the stages run multi-threaded (create_dimensional_models even with      *)
(* preserve_insertion_order=false), so every such tie is modelled as a     *)
(* nondeterministic choice made anew by each run.                          *)
(*                                                                         *)
(* Time is counted in ticks; TicksPerDay ticks make a calendar day, and    *)
(* day 0 is a Monday.  Prices are integers (cents).                        *)
(***************************************************************************)
EXTENDS Integers, Sequences, FiniteSets, TLC

VARIABLES
    parquet,      \* the rows of the raw / sample parquet file (the input)
    parquet_exists, \* whether that file is present at its path
    deployment,   \* which of the three databases this behaviour builds
    behavior_db,  \* data/db/behavior.duckdb, built by the pipeline stages
    sample_db,    \* data/sample/sample.duckdb, built by build_cloud_database
    memory_db,    \* the ':memory:' database of get_connection (sample mode)
    outcome,      \* per stage: "idle", "ok", "failed" (error logged) or
                  \* "raised" (an exception outside the try block)
    caller_sees,  \* per stage, how its last call ended for the caller:
                  \* "nothing" (never called), "return", "exception" or "stop"
    funnel_df,    \* the funnel result create_sessions last logged ({} = none)
    df,           \* the training set train_propensity_model last loaded
    rendered,     \* per dashboard page, how its last run ended
    db_path_exists, \* whether the file data/db/behavior.duckdb exists
    con_cached    \* whether the dashboard process holds its cached
                  \* read-only connection to that file (and so its lock)

vars == <<parquet, parquet_exists, deployment, behavior_db, sample_db,
         memory_db, outcome, caller_sees, funnel_df, df, rendered,
         db_path_exists, con_cached>>

-----------------------------------------------------------------------------
(* Bounds of the model *)

MaxEvents == 3
TicksPerDay == 2
MaxClockAhead == 1

(* Calendar *)
DaysPerWeek == 7

-----------------------------------------------------------------------------
(* Values *)

NULL == "NULL"          \* SQL NULL of a VARCHAR column (category_code, brand)
NoSession == << >>      \* SQL NULL of user_session; a session id is <<n>>

Stages == {"ingest_data", "create_dimensional_models", "create_sessions",
           "perform_segmentation", "calculate_retention",
           "build_recommendations", "build_feature_store",
           "train_propensity_model", "run_ab_simulation",
           "build_cloud_database", "get_connection"}

\* The pages of the dashboard that query the database
Pages == {"Home", "Project_Overview", "Data_Explorer", "Executive_Overview",
          "User_Intelligence", "ML_Engine"}

EmptyDB == [t \in {} |-> {}]

Has(db, t) == t \in DOMAIN db

\* CREATE OR REPLACE TABLE t AS rows / CREATE TABLE t AS rows
PutBug(db, t, rows) ==
    [x \in ((DOMAIN db) \ {"events"}) \cup {t} |-> IF x = t THEN rows ELSE db[x]]
Put(db, t, rows) ==
    [x \in (DOMAIN db) \cup {t} |-> IF x = t THEN rows ELSE db[x]]

\* duckdb.connect(db_path) of a stage, which stands before the try block:
\* DuckDB lets one process write a file or several read it, so while the
\* dashboard holds its connection the call raises, nothing is logged by the
\* stage and the exception reaches the caller
ConnectRaises(s) ==
    /\ outcome' = [outcome EXCEPT ![s] = "raised"]
    /\ caller_sees' = [caller_sees EXCEPT ![s] = "exception"]
    /\ UNCHANGED <<parquet, parquet_exists, deployment, behavior_db, sample_db,
                   memory_db, funnel_df, df, rendered, db_path_exists, con_cached>>

-----------------------------------------------------------------------------
(* SQL aggregates and date functions *)

\* SUM(col) over the rows of a group, given as the function row |-> col
RECURSIVE SUM(_)
SUM(f) ==
    IF DOMAIN f = {} THEN 0
    ELSE LET r == CHOOSE x \in DOMAIN f : TRUE
         IN  f[r] + SUM([x \in (DOMAIN f) \ {r} |-> f[x]])

MAX(S) == CHOOSE x \in S : \A y \in S : y <= x
MIN(S) == CHOOSE x \in S : \A y \in S : x <= y

\* CAST(event_time AS DATE), as a day number
DateOf(t) == t \div TicksPerDay

\* date_trunc('week', t), as a week number (weeks start on Monday = day 0)
WeekOf(t) == DateOf(t) \div DaysPerWeek

\* date_diff('day', a, b): calendar-day boundaries crossed from a to b
DateDiffDay(a, b) == DateOf(b) - DateOf(a)

\* date_diff('week', a, b) of two week-truncated instants
DateDiffWeek(wa, wb) == wb - wa

\* VARCHAR order of the category codes the model uses
CodeOrder == <<"appliances", "electronics">>
CodeRank(c) == CHOOSE i \in 1..Len(CodeOrder) : CodeOrder[i] = c

\* MAX over a VARCHAR column: NULLs are ignored, NULL when nothing is left
MaxCode(S) ==
    LET known == S \ {NULL}
    IN  IF known = {} THEN NULL
        ELSE CHOOSE c \in known : \A d \in known : CodeRank(d) <= CodeRank(c)

COALESCE(x, d) == IF x = NULL THEN d ELSE x

-----------------------------------------------------------------------------
(* Bounded event stores: every set of at most MaxEvents events drawn from  *)
(* a grid of instants, users and event kinds.  Row ids grow with           *)
(* event_time, as the loaders write the table ORDER BY event_time.         *)

WeekTicks == TicksPerDay * DaysPerWeek
Times == <<0, 1, WeekTicks>>
UserDomain == {1, 2}
Kinds == <<
    [event_type |-> "view",     product_id |-> 1, price |-> 1,
     category_code |-> "electronics", brand |-> NULL],
    [event_type |-> "purchase", product_id |-> 1, price |-> 1,
     category_code |-> NULL, brand |-> NULL],
    [event_type |-> "purchase", product_id |-> 1, price |-> 2,
     category_code |-> "appliances", brand |-> "acme"],
    [event_type |-> "purchase", product_id |-> 2, price |-> 3,
     category_code |-> "appliances", brand |-> "acme"],
    [event_type |-> "cart",     product_id |-> 2, price |-> 3,
     category_code |-> "appliances", brand |-> "acme"] >>

NUsers == Cardinality(UserDomain)
NKinds == Len(Kinds)
NShapes == Len(Times) * NUsers * NKinds

EventAt(i) ==
    LET j == i - 1
        k == Kinds[(j % NKinds) + 1]
        u == ((j \div NKinds) % NUsers) + 1
        t == Times[(j \div (NKinds * NUsers)) + 1]
    IN  [rid |-> i, event_time |-> t, event_type |-> k.event_type,
         product_id |-> k.product_id, category_id |-> k.product_id,
         category_code |-> k.category_code, brand |-> k.brand,
         price |-> k.price, user_id |-> u, user_session |-> <<u>>]

RECURSIVE KSubsets(_, _)
KSubsets(S, k) ==
    IF k = 0 THEN {{}}
    ELSE LET smaller == KSubsets(S, k - 1)
         IN  smaller \cup {T \cup {x} : T \in smaller, x \in S}

GridStores == {{EventAt(i) : i \in I} : I \in KSubsets(1..NShapes, MaxEvents)}

(* Bounded event stores of buyers: at most MaxUsers users, each following *)
(* one of the histories below (user h follows history h).  The            *)
(* fifth history ties with the first on purchase count; the sixth ties     *)
(* with the third on the day of the last purchase, on monetary value and   *)
(* on the number of purchase days.  The last history is a browser's, whose *)
(* view is the latest event of the store.                                  *)

MaxUsers == 6

DayStart(d) == d * TicksPerDay

Histories == <<
    << [event_time |-> DayStart(0), event_type |-> "purchase", price |-> 1] >>,
    << [event_time |-> DayStart(0) + 1, event_type |-> "purchase", price |-> 1],
       [event_time |-> DayStart(1), event_type |-> "purchase", price |-> 1] >>,
    << [event_time |-> DayStart(0), event_type |-> "purchase", price |-> 2],
       [event_time |-> DayStart(1), event_type |-> "purchase", price |-> 2],
       [event_time |-> DayStart(2), event_type |-> "purchase", price |-> 2] >>,
    << [event_time |-> DayStart(0), event_type |-> "view", price |-> 9],
       [event_time |-> DayStart(0), event_type |-> "purchase", price |-> 1],
       [event_time |-> DayStart(1), event_type |-> "purchase", price |-> 1],
       [event_time |-> DayStart(2), event_type |-> "purchase", price |-> 1],
       [event_time |-> DayStart(3) + 1, event_type |-> "purchase", price |-> 1] >>,
    << [event_time |-> DayStart(4), event_type |-> "purchase", price |-> 3] >>,
    << [event_time |-> DayStart(0), event_type |-> "purchase", price |-> 1],
       [event_time |-> DayStart(0) + 1, event_type |-> "purchase", price |-> 1],
       [event_time |-> DayStart(1), event_type |-> "purchase", price |-> 1],
       [event_time |-> DayStart(1) + 1, event_type |-> "purchase", price |-> 1],
       [event_time |-> DayStart(2) + 1, event_type |-> "purchase", price |-> 2] >>,
    << [event_time |-> DayStart(5), event_type |-> "view", price |-> 1] >> >>

NHistories == Len(Histories)
HistoryLen == MAX({Len(Histories[h]) : h \in 1..NHistories})

HistoryEvents(h) ==
    {[rid |-> (h - 1) * HistoryLen + j,
      event_time |-> Histories[h][j].event_time,
      event_type |-> Histories[h][j].event_type,
      product_id |-> 1, category_id |-> 1,
      category_code |-> NULL, brand |-> NULL,
      price |-> Histories[h][j].price,
      user_id |-> h, user_session |-> <<h>>]
     : j \in 1..Len(Histories[h])}

BuyerStores ==
    {UNION {HistoryEvents(h) : h \in S}
     : S \in {T \in SUBSET (1..NHistories) : Cardinality(T) <= MaxUsers}}

(* Bounded event stores of baskets: at most MaxSessions purchase sessions *)
(* of one user, each holding one of the baskets below (the last one buys   *)
(* product 1 twice).  Session s happens at tick s - 1.                     *)

MaxSessions == 7

BasketKinds == << <<1, 2>>, <<3>>, <<1>>, <<1, 1, 2>> >>
NBasketKinds == Len(BasketKinds)
BasketLen == MAX({Len(BasketKinds[b]) : b \in 1..NBasketKinds})

SessionEvents(s, b) ==
    {[rid |-> (s - 1) * BasketLen + j,
      event_time |-> s - 1,
      event_type |-> "purchase",
      product_id |-> BasketKinds[b][j], category_id |-> BasketKinds[b][j],
      category_code |-> NULL, brand |-> NULL,
      price |-> BasketKinds[b][j],
      user_id |-> 1, user_session |-> <<s>>]
     : j \in 1..Len(BasketKinds[b])}

\* The sessions 1..n hold their baskets in the order of BasketKinds
RECURSIVE SessionsOf(_, _, _)
SessionsOf(c, b, s) ==
    IF b > NBasketKinds THEN {}
    ELSE UNION {SessionEvents(s + i, b) : i \in 0..(c[b] - 1)}
         \cup SessionsOf(c, b + 1, s + c[b])

BasketStores ==
    {SessionsOf(c, 1, 1)
     : c \in {f \in [1..NBasketKinds -> 0..MaxSessions] : SUM(f) <= MaxSessions}}

(* Bounded event stores of sessions: every set of at most MaxStoreEvents   *)
(* of the events below.  Session 1 holds events of users 1 and 2; users 2  *)
(* and 3 have events without a session; user 3 buys without a session;     *)
(* user 1 has up to three sessions.                                        *)

MaxStoreEvents == 5

SessionKinds == <<
    [user_id |-> 1, user_session |-> <<1>>, event_type |-> "view",
     event_time |-> 0, price |-> 2, category_code |-> "electronics"],
    [user_id |-> 1, user_session |-> <<1>>, event_type |-> "cart",
     event_time |-> 1, price |-> 2, category_code |-> NULL],
    [user_id |-> 1, user_session |-> <<1>>, event_type |-> "purchase",
     event_time |-> 3, price |-> 2, category_code |-> NULL],
    [user_id |-> 2, user_session |-> <<1>>, event_type |-> "view",
     event_time |-> 2, price |-> 2, category_code |-> "appliances"],
    [user_id |-> 2, user_session |-> <<2>>, event_type |-> "purchase",
     event_time |-> 4, price |-> 3, category_code |-> NULL],
    [user_id |-> 2, user_session |-> NoSession, event_type |-> "view",
     event_time |-> 5, price |-> 3, category_code |-> NULL],
    [user_id |-> 3, user_session |-> NoSession, event_type |-> "purchase",
     event_time |-> 6, price |-> 1, category_code |-> NULL],
    [user_id |-> 1, user_session |-> <<3>>, event_type |-> "view",
     event_time |-> 7, price |-> 1, category_code |-> NULL],
    [user_id |-> 1, user_session |-> <<4>>, event_type |-> "cart",
     event_time |-> 8, price |-> 1, category_code |-> NULL],
    [user_id |-> 1, user_session |-> <<4>>, event_type |-> "view",
     event_time |-> 10, price |-> 1, category_code |-> NULL] >>

NSessionKinds == Len(SessionKinds)

SessionEventAt(i) ==
    [rid |-> i,
     event_time |-> SessionKinds[i].event_time,
     event_type |-> SessionKinds[i].event_type,
     product_id |-> 1, category_id |-> 1,
     category_code |-> SessionKinds[i].category_code, brand |-> NULL,
     price |-> SessionKinds[i].price,
     user_id |-> SessionKinds[i].user_id,
     user_session |-> SessionKinds[i].user_session]

SessionStores ==
    {{SessionEventAt(i) : i \in I}
     : I \in {T \in SUBSET (1..NSessionKinds) : Cardinality(T) <= MaxStoreEvents}}

(* Bounded event stores around the split date of the propensity model:    *)
(* every set of at most MaxTrainEvents of the events below, whose times    *)
(* are given as ticks before or after 2019-11-01 00:00.  Day 0 is Monday   *)
(* 2019-10-28, so 2019-11-01 is day 4.  User 1 has a cart in the last tick *)
(* of October and a purchase in the first tick of November; user 2 buys in *)
(* October and in November; user 3 can be without an event in October.     *)

MaxTrainEvents == 4

NovemberFirstDay == 4
NovemberFirst == DayStart(NovemberFirstDay)

TrainKinds == <<
    [user_id |-> 1, user_session |-> <<1>>, event_type |-> "view",
     offset |-> 0 - NovemberFirst],
    [user_id |-> 3, user_session |-> NoSession, event_type |-> "remove_from_cart",
     offset |-> -5],
    [user_id |-> 2, user_session |-> <<3>>, event_type |-> "purchase",
     offset |-> -3],
    [user_id |-> 1, user_session |-> <<1>>, event_type |-> "cart",
     offset |-> -1],
    [user_id |-> 1, user_session |-> <<2>>, event_type |-> "purchase",
     offset |-> 0],
    [user_id |-> 2, user_session |-> <<4>>, event_type |-> "view",
     offset |-> 1],
    [user_id |-> 3, user_session |-> <<5>>, event_type |-> "purchase",
     offset |-> 2],
    [user_id |-> 2, user_session |-> <<4>>, event_type |-> "purchase",
     offset |-> 3] >>

NTrainKinds == Len(TrainKinds)

TrainEventAt(i) ==
    [rid |-> i,
     event_time |-> NovemberFirst + TrainKinds[i].offset,
     event_type |-> TrainKinds[i].event_type,
     product_id |-> 1, category_id |-> 1,
     category_code |-> NULL, brand |-> NULL,
     price |-> i,
     user_id |-> TrainKinds[i].user_id,
     user_session |-> TrainKinds[i].user_session]

TrainStores ==
    {{TrainEventAt(i) : i \in I}
     : I \in {T \in SUBSET (1..NTrainKinds) : Cardinality(T) <= MaxTrainEvents}}

(* The raw files of the runs in which the file is replaced or removed     *)
(* between two stages: an empty file, a file with one view of user 1, and  *)
(* a file with a purchase of user 2 and a later purchase of user 1.        *)

RerunShapes == {{}, {1}, {NKinds + 2, 2 * NKinds * NUsers + NKinds - 1}}
RerunStores == {{EventAt(i) : i \in I} : I \in RerunShapes}

-----------------------------------------------------------------------------
(* src/ingestion/loader.py *)

\* not os.path.exists(path), given whether the file is present
FileMissingBug(present) == FALSE
FileMissing(present) == ~present

\* The check of the raw file, made before the database is opened, then
\* CREATE OR REPLACE TABLE events AS SELECT * FROM read_parquet(..) ORDER BY event_time
ingest_data ==
    /\ deployment = "local"
    /\ IF FileMissing(parquet_exists)
       THEN /\ outcome' = [outcome EXCEPT !["ingest_data"] = "failed"]
            /\ caller_sees' = [caller_sees EXCEPT !["ingest_data"] = "return"]
            /\ UNCHANGED <<parquet, parquet_exists, deployment, behavior_db,
                           sample_db, memory_db, funnel_df, df, rendered,
                           db_path_exists, con_cached>>
       ELSE IF con_cached
       THEN ConnectRaises("ingest_data")
       ELSE /\ db_path_exists' = TRUE
            /\ behavior_db' = Put(behavior_db, "events", parquet)
            /\ outcome' = [outcome EXCEPT !["ingest_data"] = "ok"]
            /\ caller_sees' = [caller_sees EXCEPT !["ingest_data"] = "return"]
            /\ UNCHANGED <<parquet, parquet_exists, deployment, funnel_df, df,
                           rendered, sample_db, memory_db, con_cached>>

\* The raw file is not written by the pipeline: whoever supplies it may
\* replace it by another file, or remove it, between two runs
raw_file_changes ==
    /\ \/ parquet' \in RerunStores /\ parquet_exists' = TRUE
       \/ parquet' = parquet /\ parquet_exists' = FALSE
    /\ <<parquet', parquet_exists'>> # <<parquet, parquet_exists>>
    /\ UNCHANGED <<deployment, behavior_db, sample_db, memory_db, outcome,
                   caller_sees, funnel_df, df, rendered, db_path_exists,
                   con_cached>>

-----------------------------------------------------------------------------
(* src/processing/initial_modeling.py *)

ProductsOf(ev) == {e.product_id : e \in ev}
UsersOf(ev) == {e.user_id : e \in ev}

ProductRow(e) ==
    [product_id |-> e.product_id, category_id |-> e.category_id,
     category_code |-> COALESCE(e.category_code, "unknown"),
     brand |-> COALESCE(e.brand, "unknown"),
     current_price |-> e.price]

\* The rows ORDER BY product_id, event_time DESC may put first for product p
LatestEventsBug(ev, p) ==
    {e \in ev : /\ e.product_id = p
                /\ \A o \in ev : o.product_id = p => e.event_time <= o.event_time}
LatestEvents(ev, p) ==
    {e \in ev : /\ e.product_id = p
                /\ \A o \in ev : o.product_id = p => o.event_time <= e.event_time}

\* SELECT DISTINCT ON (product_id) .. ORDER BY product_id, event_time DESC:
\* every table the query can produce, one row per product
RECURSIVE DistinctOnProduct(_, _)
DistinctOnProduct(ev, prods) ==
    IF prods = {} THEN {{}}
    ELSE LET p == CHOOSE x \in prods : TRUE
         IN  {T \cup {ProductRow(e)} :
                 T \in DistinctOnProduct(ev, prods \ {p}),
                 e \in LatestEvents(ev, p)}

query_products(ev) == DistinctOnProduct(ev, ProductsOf(ev))

PurchasePriceBug(e) == e.price
PurchasePrice(e) == IF e.event_type = "purchase" THEN e.price ELSE 0
PurchaseOneBug(e) == 1
PurchaseOne(e) == IF e.event_type = "purchase" THEN 1 ELSE 0
CartOne(e) == IF e.event_type = "cart" THEN 1 ELSE 0
ViewOne(e) == IF e.event_type = "view" THEN 1 ELSE 0

\* COUNT(DISTINCT user_session): NULLs are not counted
CountDistinctSessions(rows) ==
    Cardinality({e.user_session : e \in rows} \ {NoSession})

query_daily(ev) ==
    {LET g == {e \in ev : DateOf(e.event_time) = d}
     IN  [date |-> d,
          total_events |-> Cardinality(g),
          dau |-> Cardinality({e.user_id : e \in g}),
          daily_sessions |-> CountDistinctSessions(g),
          daily_revenue |-> SUM([e \in g |-> PurchasePrice(e)]),
          total_purchases |-> SUM([e \in g |-> PurchaseOne(e)]),
          total_carts |-> SUM([e \in g |-> CartOne(e)]),
          total_views |-> SUM([e \in g |-> ViewOne(e)])]
     : d \in {DateOf(e.event_time) : e \in ev}}

UserRow(ev, u) ==
    LET g == {e \in ev : e.user_id = u}
    IN  [user_id |-> u,
         first_seen |-> MIN({e.event_time : e \in g}),
         last_seen |-> MAX({e.event_time : e \in g}),
         event_count |-> Cardinality(g),
         session_count |-> CountDistinctSessions(g),
         total_spend |-> SUM([e \in g |-> PurchasePrice(e)]),
         purchase_count |-> SUM([e \in g |-> PurchaseOne(e)]),
         is_buyer |-> \E e \in g : e.event_type = "purchase",
         favorite_category_by_recency |->
             MaxCode({e.category_code : e \in {x \in g : x.event_type = "view"}})]

query_users(ev) == {UserRow(ev, u) : u \in UsersOf(ev)}

\* The three CREATE OR REPLACE TABLE statements, then the verification block:
\* SUM(daily_revenue) is None on an empty table and the f-string format of
\* None raises, which the except clause logs.
create_dimensional_models ==
    /\ deployment = "local"
    /\ IF con_cached
       THEN ConnectRaises("create_dimensional_models")
       ELSE /\ db_path_exists' = TRUE
            /\ UNCHANGED con_cached
            /\ IF ~Has(behavior_db, "events")
               THEN /\ outcome' = [outcome EXCEPT !["create_dimensional_models"] = "failed"]
                    /\ UNCHANGED behavior_db
               ELSE LET ev == behavior_db["events"]
                    IN  \E dp \in query_products(ev) :
                          /\ behavior_db' =
                                Put(Put(Put(behavior_db, "dim_products", dp),
                                        "fact_daily_kpis", query_daily(ev)),
                                    "dim_users", query_users(ev))
                          /\ outcome' = [outcome EXCEPT !["create_dimensional_models"] =
                                            IF ev = {} THEN "failed" ELSE "ok"]
            /\ caller_sees' = [caller_sees EXCEPT !["create_dimensional_models"] = "return"]
            /\ UNCHANGED <<parquet, parquet_exists, deployment, funnel_df, df, rendered,
                         sample_db, memory_db>>

-----------------------------------------------------------------------------
(* src/analysis/retention.py *)

\* user_activity: dim_users u JOIN events e ON u.user_id = e.user_id
user_activity(du, ev) ==
    {[rid |-> e.rid, user_id |-> u.user_id,
      cohort_week |-> WeekOf(u.first_seen),
      activity_week |-> WeekOf(e.event_time)]
     : <<u, e>> \in {x \in du \X ev : x[1].user_id = x[2].user_id}}

\* cohort_sizes: COUNT(DISTINCT user_id) per date_trunc('week', first_seen)
cohort_sizes(du) ==
    {[cohort_week |-> w,
      cohort_size |-> Cardinality({u.user_id : u \in {x \in du : WeekOf(x.first_seen) = w}})]
     : w \in {WeekOf(u.first_seen) : u \in du}}

\* COUNT(DISTINCT ua.user_id) over the rows of one group
CountDistinctUsersBug(g) == Cardinality(g)
CountDistinctUsers(g) == Cardinality({r.user_id : r \in g})

\* A DOUBLE quotient, kept as the fraction it was computed from
Ratio(n, d) == [num |-> n, den |-> d]

\* user_activity ua JOIN cohort_sizes cs ON cohort_week, GROUP BY 1, 2, 3
query_retention(du, ev) ==
    LET joined == {[ua |-> x[1], cs |-> x[2]]
                   : x \in {y \in user_activity(du, ev) \X cohort_sizes(du) :
                              y[1].cohort_week = y[2].cohort_week}}
        KeyOf(j) == <<j.ua.cohort_week, j.cs.cohort_size,
                      DateDiffWeek(j.ua.cohort_week, j.ua.activity_week)>>
    IN  {LET g == {j.ua : j \in {x \in joined : KeyOf(x) = k}}
         IN  [cohort_week |-> k[1],
              cohort_size |-> k[2],
              weeks_since_first |-> k[3],
              active_users |-> CountDistinctUsers(g),
              retention_rate |-> Ratio(CountDistinctUsers(g), k[2])]
         : k \in {KeyOf(j) : j \in joined}}

\* analysis_churn_risk, against max_date = MAX(event_time) of events
query_churn(du, max_date) ==
    {LET days == DateDiffDay(u.last_seen, max_date)
     IN  [user_id |-> u.user_id, last_seen |-> u.last_seen,
          days_inactive |-> days,
          status |-> IF days > 14 THEN "Churned"
                     ELSE IF days > 7 THEN "At Risk" ELSE "Active"]
     : u \in du}

\* The retention table, then max_date and the churn table.  On an empty
\* events table max_date is None and the churn query holds TIMESTAMP 'None',
\* a cast that is evaluated for each row of dim_users: with a row the query
\* raises after the retention table was written, without one it creates an
\* empty table.
calculate_retention ==
    /\ deployment = "local"
    /\ IF con_cached
       THEN ConnectRaises("calculate_retention")
       ELSE /\ db_path_exists' = TRUE
            /\ UNCHANGED con_cached
            /\ IF ~(Has(behavior_db, "dim_users") /\ Has(behavior_db, "events"))
               THEN /\ outcome' = [outcome EXCEPT !["calculate_retention"] = "failed"]
                    /\ UNCHANGED behavior_db
               ELSE LET ev == behavior_db["events"]
                        du == behavior_db["dim_users"]
                        db1 == Put(behavior_db, "analysis_weekly_retention",
                                   query_retention(du, ev))
                    IN  IF ev = {} /\ du # {}
                        THEN /\ behavior_db' = db1
                             /\ outcome' = [outcome EXCEPT !["calculate_retention"] = "failed"]
                        ELSE /\ behavior_db' =
                                   Put(db1, "analysis_churn_risk",
                                       query_churn(du, IF ev = {} THEN NULL
                                                       ELSE MAX({e.event_time : e \in ev})))
                             /\ outcome' = [outcome EXCEPT !["calculate_retention"] = "ok"]
            /\ caller_sees' = [caller_sees EXCEPT !["calculate_retention"] = "return"]
            /\ UNCHANGED <<parquet, parquet_exists, deployment, funnel_df, df, rendered,
                         sample_db, memory_db>>

-----------------------------------------------------------------------------
(* src/analysis/segmentation.py *)

Buckets == 5

\* WHERE event_type = 'purchase'
rfm_purchasesBug(ev) == ev
rfm_purchases(ev) == {e \in ev : e.event_type = "purchase"}

\* rfm_base: one row per user with a purchase event
query_rfm_base(ev, max_date) ==
    LET purchases == rfm_purchases(ev)
    IN  {LET g == {e \in purchases : e.user_id = u}
         IN  [user_id |-> u,
              recency_days |-> DateDiffDay(MAX({e.event_time : e \in g}), max_date),
              frequency_count |-> Cardinality(g),
              monetary_value |-> SUM([e \in g |-> e.price])]
         : u \in UsersOf(purchases)}

\* The orders a sort of the ids S by key[_] ascending can produce
RECURSIVE SortedOrders(_, _)
SortedOrders(S, key) ==
    IF S = {} THEN {<< >>}
    ELSE UNION {{<<m>> \o t : t \in SortedOrders(S \ {m}, key)}
                : m \in {x \in S : \A y \in S : key[x] <= key[y]}}

\* NTILE(k) of the row at 1-based position i among n ordered rows
NtileBucketBug(i, n, k) == ((i - 1) * k) \div n
NtileBucketSkew(i, n, k) == 1 + ((i - 1) \div ((n + k - 1) \div k))
NtileBucket(i, n, k) ==
    LET parts == IF n < k THEN n ELSE k
        size == n \div parts
        large == n - parts * size
        small == large * (size + 1)
    IN  IF i - 1 < small
        THEN 1 + ((i - 1) \div (size + 1))
        ELSE 1 + large + ((i - 1 - small) \div size)

\* NTILE(5) OVER (ORDER BY key): every assignment id |-> bucket it can produce
NTILE(S, key) ==
    {[x \in S |-> NtileBucket(CHOOSE i \in 1..Len(o) : o[i] = x,
                              Cardinality(S), Buckets)]
     : o \in SortedOrders(S, key)}

\* 6 - NTILE(5) OVER (ORDER BY recency_days)
InvertedScoreBug(b) == b
InvertedScore(b) == 6 - b

\* The CASE ladder of analysis_rfm_segments
segment_nameBug(r, f) ==
    IF r >= 4 /\ f >= 4 THEN "Champions"
    ELSE IF r >= 3 /\ f >= 3 THEN "Loyal Customers"
    ELSE IF r >= 3 /\ f = 1 THEN "Promising"
    ELSE IF r >= 4 /\ f = 1 THEN "New Customers"
    ELSE IF r = 2 /\ f >= 2 THEN "Need Attention"
    ELSE IF r = 1 /\ f >= 4 THEN "Cant Lose Them"
    ELSE IF r = 1 /\ f <= 2 THEN "Hibernating"
    ELSE "At Risk"

segment_name(r, f) ==
    IF r >= 4 /\ f >= 4 THEN "Champions"
    ELSE IF r >= 3 /\ f >= 3 THEN "Loyal Customers"
    ELSE IF r >= 4 /\ f = 1 THEN "New Customers"
    ELSE IF r >= 3 /\ f = 1 THEN "Promising"
    ELSE IF r = 2 /\ f >= 2 THEN "Need Attention"
    ELSE IF r = 1 /\ f >= 4 THEN "Cant Lose Them"
    ELSE IF r = 1 /\ f <= 2 THEN "Hibernating"
    ELSE "At Risk"

\* CAST(r AS VARCHAR) || CAST(f AS VARCHAR) || CAST(m AS VARCHAR)
rfm_code(r, f, m) == ToString(r) \o ToString(f) \o ToString(m)

\* analysis_rfm_segments: every table the three window functions can produce
query_rfm_scores(base) ==
    LET ids == {b.user_id : b \in base}
        row == [u \in ids |-> CHOOSE b \in base : b.user_id = u]
    IN  {{[user_id |-> u,
           recency_days |-> row[u].recency_days,
           frequency_count |-> row[u].frequency_count,
           monetary_value |-> row[u].monetary_value,
           r_score |-> InvertedScore(rt[u]),
           f_score |-> ft[u],
           m_score |-> mt[u],
           rfm_code |-> rfm_code(InvertedScore(rt[u]), ft[u], mt[u]),
           segment_name |-> segment_name(InvertedScore(rt[u]), ft[u])]
          : u \in ids}
         : rt \in NTILE(ids, [u \in ids |-> row[u].recency_days]),
           ft \in NTILE(ids, [u \in ids |-> row[u].frequency_count]),
           mt \in NTILE(ids, [u \in ids |-> row[u].monetary_value])}

\* max_date, rfm_base (a TEMP table), analysis_rfm_segments, the summary.
\* On an empty events table max_date is None and the query holds
\* TIMESTAMP 'None'; the cast stands above the GROUP BY, which yields no
\* group, so it is never evaluated and both tables are created empty.
perform_segmentation ==
    /\ deployment = "local"
    /\ IF con_cached
       THEN ConnectRaises("perform_segmentation")
       ELSE /\ db_path_exists' = TRUE
            /\ UNCHANGED con_cached
            /\ IF ~Has(behavior_db, "events")
               THEN /\ outcome' = [outcome EXCEPT !["perform_segmentation"] = "failed"]
                    /\ UNCHANGED behavior_db
               ELSE LET ev == behavior_db["events"]
                        max_date == IF ev = {} THEN NULL
                                    ELSE MAX({e.event_time : e \in ev})
                    IN  \E seg \in query_rfm_scores(query_rfm_base(ev, max_date)) :
                          /\ behavior_db' = Put(behavior_db, "analysis_rfm_segments", seg)
                          /\ outcome' = [outcome EXCEPT !["perform_segmentation"] = "ok"]
            /\ caller_sees' = [caller_sees EXCEPT !["perform_segmentation"] = "return"]
            /\ UNCHANGED <<parquet, parquet_exists, deployment, funnel_df, df, rendered,
                         sample_db, memory_db>>

-----------------------------------------------------------------------------
(* src/models/recommendations.py *)

MinSupport == 5
LiftNum == 12      \* the lift threshold 1.2 = LiftNum / LiftDen
LiftDen == 10

\* x > 1.2 for the quotient x = num / den, den > 0
AboveLiftThreshold(x) == x.num * LiftDen > LiftNum * x.den

\* baskets: the purchase rows
baskets(ev) == {e \in ev : e.event_type = "purchase"}

\* The join condition a.user_session = b.user_session is never true on NULL
SameSession(a, b) ==
    a.user_session # NoSession /\ a.user_session = b.user_session

\* WHERE a.product_id != b.product_id
PairFilter(a, b) == a.product_id # b.product_id

\* baskets a JOIN baskets b ON session WHERE .. : the joined rows
JoinedPairs(bk) ==
    {x \in bk \X bk : SameSession(x[1], x[2]) /\ PairFilter(x[1], x[2])}

\* product_pairs: GROUP BY 1, 2 HAVING COUNT(*) >= 5
product_pairs(bk) ==
    LET joined == JoinedPairs(bk)
        KeyOf(x) == <<x[1].product_id, x[2].product_id>>
    IN  {r \in {[product_a |-> k[1], product_b |-> k[2],
                 pair_count |-> Cardinality({x \in joined : KeyOf(x) = k})]
                : k \in {KeyOf(x) : x \in joined}}
         : r.pair_count >= MinSupport}

\* SELECT COUNT(DISTINCT user_session) FROM baskets
total_sessions(bk) == CountDistinctSessions(bk)

\* product_counts: COUNT(*) per product
ProductCount(bk, p) == Cardinality({e \in bk : e.product_id = p})

\* predictions_product_affinity of build_recommendations.  The operator /
\* is DuckDB's floating-point division; a quotient of two integers is kept
\* exact, as numerator and denominator.
query_rules(bk) ==
    LET n == total_sessions(bk)
    IN  {r \in {[product_a |-> p.product_a,
                 product_b |-> p.product_b,
                 pair_count |-> p.pair_count,
                 confidence |-> Ratio(p.pair_count, ProductCount(bk, p.product_a)),
                 lift |-> Ratio(p.pair_count * n,
                                ProductCount(bk, p.product_a)
                                    * ProductCount(bk, p.product_b))]
                : p \in product_pairs(bk)}
         : AboveLiftThreshold(r.lift)}

\* baskets, product_pairs, product_counts (TEMP tables), the rules table,
\* then the preview, which joins dim_products and raises when it is missing.
build_recommendations ==
    /\ deployment = "local"
    /\ IF con_cached
       THEN ConnectRaises("build_recommendations")
       ELSE /\ db_path_exists' = TRUE
            /\ UNCHANGED con_cached
            /\ IF ~Has(behavior_db, "events")
               THEN /\ outcome' = [outcome EXCEPT !["build_recommendations"] = "failed"]
                    /\ UNCHANGED behavior_db
               ELSE /\ behavior_db' = Put(behavior_db, "predictions_product_affinity",
                                          query_rules(baskets(behavior_db["events"])))
                    /\ outcome' = [outcome EXCEPT !["build_recommendations"] =
                                      IF Has(behavior_db, "dim_products") THEN "ok" ELSE "failed"]
            /\ caller_sees' = [caller_sees EXCEPT !["build_recommendations"] = "return"]
            /\ UNCHANGED <<parquet, parquet_exists, deployment, funnel_df, df, rendered,
                         sample_db, memory_db>>

-----------------------------------------------------------------------------
(* src/scripts/create_cloud_database.py.  app/db_utils.py repeats the same *)
(* SQL for dim_products, fact_sessions, fact_daily_kpis and                *)
(* user_rfm_segments; its dim_users and its affinity query differ.         *)

CloudMinSupport == 3
SecondsPerDay == 86400

cloud_dim_users(ev) ==
    {LET g == {e \in ev : e.user_id = u}
     IN  [user_id |-> u,
          first_seen |-> MIN({e.event_time : e \in g}),
          last_seen |-> MAX({e.event_time : e \in g}),
          event_count |-> Cardinality(g),
          session_count |-> CountDistinctSessions(g),
          purchase_count |-> SUM([e \in g |-> PurchaseOne(e)]),
          total_spend |-> SUM([e \in g |-> PurchasePrice(e)]),
          is_buyer |-> MAX({PurchaseOne(e) : e \in g})]
     : u \in UsersOf(ev)}

\* GROUP BY user_session, user_id (a NULL user_session is a group of its own)
cloud_fact_sessions(ev) ==
    {LET g == {e \in ev : <<e.user_session, e.user_id>> = k}
         first == MIN({e.event_time : e \in g})
         last == MAX({e.event_time : e \in g})
     IN  [user_session |-> k[1],
          user_id |-> k[2],
          session_start |-> first,
          session_end |-> last,
          duration_sec |-> (last - first) * (SecondsPerDay \div TicksPerDay),
          event_count |-> Cardinality(g),
          unique_products |-> Cardinality({e.product_id : e \in g}),
          has_purchase |-> MAX({PurchaseOne(e) : e \in g}),
          session_revenue |-> SUM([e \in g |-> PurchasePrice(e)])]
     : k \in {<<e.user_session, e.user_id>> : e \in ev}}

cloud_fact_daily_kpis(ev) ==
    {LET g == {e \in ev : DateOf(e.event_time) = d}
     IN  [date |-> d,
          daily_events |-> Cardinality(g),
          dau |-> Cardinality({e.user_id : e \in g}),
          daily_sessions |-> CountDistinctSessions(g),
          views |-> SUM([e \in g |-> ViewOne(e)]),
          carts |-> SUM([e \in g |-> CartOne(e)]),
          purchases |-> SUM([e \in g |-> PurchaseOne(e)]),
          daily_revenue |-> SUM([e \in g |-> PurchasePrice(e)])]
     : d \in {DateOf(e.event_time) : e \in ev}}

\* buyer_rfm, against CURRENT_DATE = today (a day number)
buyer_rfm(ev, today) ==
    LET purchases == {e \in ev : e.event_type = "purchase"}
    IN  {LET g == {e \in purchases : e.user_id = u}
         IN  [user_id |-> u,
              recency_days |-> today - MAX({DateOf(e.event_time) : e \in g}),
              frequency |-> Cardinality({DateOf(e.event_time) : e \in g}),
              monetary |-> SUM([e \in g |-> e.price])]
         : u \in UsersOf(purchases)}

\* The CASE ladder of user_rfm_segments
cloud_segment(r, f) ==
    IF r >= 4 /\ f >= 4 THEN "Champions"
    ELSE IF r >= 3 /\ f >= 3 THEN "Loyal Customers"
    ELSE IF r >= 4 /\ f <= 2 THEN "Promising"
    ELSE IF r <= 2 /\ f >= 3 THEN "At Risk"
    ELSE IF r <= 2 /\ f <= 2 THEN "Lost"
    ELSE "Regular"

\* ORDER BY recency_days DESC, as an ascending sort key
DescendingKey(v) == 0 - v

\* user_rfm_segments: every table the three window functions can produce
user_rfm_segments(ev, today) ==
    LET base == buyer_rfm(ev, today)
        ids == {b.user_id : b \in base}
        row == [u \in ids |-> CHOOSE b \in base : b.user_id = u]
    IN  {{[user_id |-> u,
           recency_days |-> row[u].recency_days,
           frequency |-> row[u].frequency,
           monetary |-> row[u].monetary,
           r_score |-> rt[u],
           f_score |-> ft[u],
           m_score |-> mt[u],
           rfm_total |-> rt[u] + ft[u] + mt[u],
           segment |-> cloud_segment(rt[u], ft[u])]
          : u \in ids}
         : rt \in NTILE(ids, [u \in ids |-> DescendingKey(row[u].recency_days)]),
           ft \in NTILE(ids, [u \in ids |-> row[u].frequency]),
           mt \in NTILE(ids, [u \in ids |-> row[u].monetary])}

\* COUNT(DISTINCT user_session) of the purchases of product p
SessionCount(ev, p) ==
    CountDistinctSessions({e \in baskets(ev) : e.product_id = p})

\* product_pairs: events a JOIN events b ON session AND a.product_id <
\* b.product_id, HAVING COUNT(DISTINCT a.user_session) >= 3
cloud_product_pairs(ev) ==
    LET bk == baskets(ev)
        joined == {x \in bk \X bk : /\ SameSession(x[1], x[2])
                                    /\ x[1].product_id < x[2].product_id}
        KeyOf(x) == <<x[1].product_id, x[2].product_id>>
    IN  {r \in {[product_a |-> k[1], product_b |-> k[2],
                 pair_count |-> Cardinality({x[1].user_session :
                                               x \in {y \in joined : KeyOf(y) = k}})]
                : k \in {KeyOf(x) : x \in joined}}
         : r.pair_count >= CloudMinSupport}

\* (pair_count / session_count(a)) / (session_count(b) / total): the exact
\* quotient, with the outcome of comparing the computed value with 1.2.
\* The value is rounded after each of the two divisions, so where the exact
\* quotient is 1.2 itself the computed one may fall on either side.
CloudLift(ev, p) ==
    LET q == Ratio(p.pair_count * CountDistinctSessions(baskets(ev)),
                   SessionCount(ev, p.product_a) * SessionCount(ev, p.product_b))
    IN  {[num |-> q.num, den |-> q.den, above |-> a]
         : a \in IF q.num * LiftDen = LiftNum * q.den
                 THEN BOOLEAN ELSE {AboveLiftThreshold(q)}}

\* The candidate rules of the final select: every table that the roundings
\* of the lifts can produce
CloudRules(ev) ==
    LET pairs == cloud_product_pairs(ev)
        lifts == UNION {CloudLift(ev, p) : p \in pairs}
    IN  {{[product_a |-> p.product_a,
           product_b |-> p.product_b,
           pair_count |-> p.pair_count,
           confidence |-> Ratio(p.pair_count, SessionCount(ev, p.product_a)),
           lift |-> f[p]]
          : p \in pairs}
         : f \in {g \in [pairs -> lifts] : \A p \in pairs : g[p] \in CloudLift(ev, p)}}

\* Whether the builder keeps the rule r (WHERE .. > 1.2)
CloudRuleFilter(r) == r.lift.above

cloud_affinity(ev) ==
    {{r \in t : CloudRuleFilter(r)} : t \in CloudRules(ev)}

\* CURRENT_DATE of a run: the day of the latest event, or later
Today(ev) ==
    LET last == IF ev = {} THEN 0 ELSE MAX({DateOf(e.event_time) : e \in ev})
    IN  last..(last + MaxClockAhead)

\* The check of the sample parquet, made before the old database file is
\* removed; then every table is built anew in a new file
build_cloud_database ==
    /\ deployment = "cloud"
    /\ IF FileMissing(parquet_exists)
       THEN /\ outcome' = [outcome EXCEPT !["build_cloud_database"] = "failed"]
            /\ UNCHANGED sample_db
       ELSE /\ LET du == cloud_dim_users(parquet)
                   fs == cloud_fact_sessions(parquet)
                   fd == cloud_fact_daily_kpis(parquet)
               IN  \E today \in Today(parquet) :
                   \E pa \in cloud_affinity(parquet) :
                   \E dp \in query_products(parquet) :
                   \E seg \in user_rfm_segments(parquet, today) :
                      sample_db' =
                        [events |-> parquet,
                         dim_products |-> dp,
                         dim_users |-> du,
                         fact_sessions |-> fs,
                         fact_daily_kpis |-> fd,
                         user_rfm_segments |-> seg,
                         predictions_product_affinity |-> pa]
            /\ outcome' = [outcome EXCEPT !["build_cloud_database"] = "ok"]
    /\ caller_sees' = [caller_sees EXCEPT !["build_cloud_database"] = "return"]
    /\ UNCHANGED <<parquet, parquet_exists, deployment, funnel_df, df, rendered,
                 behavior_db, memory_db, db_path_exists, con_cached>>

-----------------------------------------------------------------------------
(* src/app/db_utils.py *)

sample_dim_users(ev) ==
    {LET g == {e \in ev : e.user_id = u}
     IN  [user_id |-> u,
          first_seen |-> MIN({e.event_time : e \in g}),
          last_seen |-> MAX({e.event_time : e \in g}),
          event_count |-> Cardinality(g),
          session_count |-> CountDistinctSessions(g),
          purchase_count |-> SUM([e \in g |-> PurchaseOne(e)]),
          total_spend |-> SUM([e \in g |-> PurchasePrice(e)])]
     : u \in UsersOf(ev)}

\* purchase_pairs, pair_stats (HAVING COUNT(DISTINCT user_session) >= 3),
\* product_support and the final select, whose only filter is
\* WHERE ps.pair_count >= 3
sample_affinity(ev) ==
    {{r \in t : r.pair_count >= CloudMinSupport} : t \in CloudRules(ev)}

\* Sample mode: the in-memory database is built once and cached
\* (st.cache_resource); without the parquet file the page shows an error
\* and st.stop() ends the script
get_connection ==
    /\ deployment = "sample"
    /\ memory_db = EmptyDB
    /\ IF FileMissing(parquet_exists)
       THEN /\ outcome' = [outcome EXCEPT !["get_connection"] = "failed"]
            /\ caller_sees' = [caller_sees EXCEPT !["get_connection"] = "stop"]
            /\ UNCHANGED memory_db
       ELSE /\ LET du == sample_dim_users(parquet)
                   fd == cloud_fact_daily_kpis(parquet)
                   fs == cloud_fact_sessions(parquet)
               IN  \E today \in Today(parquet) :
                   \E pa \in sample_affinity(parquet) :
                   \E dp \in query_products(parquet) :
                   \E seg \in user_rfm_segments(parquet, today) :
                      memory_db' =
                        [events |-> parquet,
                         dim_products |-> dp,
                         dim_users |-> du,
                         fact_daily_kpis |-> fd,
                         fact_sessions |-> fs,
                         user_rfm_segments |-> seg,
                         predictions_product_affinity |-> pa]
            /\ outcome' = [outcome EXCEPT !["get_connection"] = "ok"]
            /\ caller_sees' = [caller_sees EXCEPT !["get_connection"] = "return"]
    /\ UNCHANGED <<parquet, parquet_exists, deployment, funnel_df, df, rendered,
                 behavior_db, sample_db, db_path_exists, con_cached>>

-----------------------------------------------------------------------------
(* src/models/train_propensity.py *)

\* WHERE event_time < '2019-11-01'
BeforeCutoffBug(t) == t <= NovemberFirst
BeforeCutoff(t) == t < NovemberFirst

RemoveOne(e) == IF e.event_type = "remove_from_cart" THEN 1 ELSE 0

\* oct_behavior: the events before the split date, GROUP BY user_id
oct_behavior(ev) ==
    LET oct == {e \in ev : BeforeCutoff(e.event_time)}
    IN  {LET g == {e \in oct : e.user_id = u}
             first == MIN({e.event_time : e \in g})
             last == MAX({e.event_time : e \in g})
         IN  [user_id |-> u,
              oct_events |-> Cardinality(g),
              oct_sessions |-> CountDistinctSessions(g),
              oct_views |-> SUM([e \in g |-> ViewOne(e)]),
              oct_carts |-> SUM([e \in g |-> CartOne(e)]),
              oct_removes |-> SUM([e \in g |-> RemoveOne(e)]),
              last_oct_event |-> last,
              active_span_days |-> DateDiffDay(first, last)]
         : u \in UsersOf(oct)}

\* nov_outcome: the users with a purchase on or after the split date
nov_outcome(ev) ==
    {e.user_id : e \in {x \in ev : /\ ~(x.event_time < NovemberFirst)
                                    /\ x.event_type = "purchase"}}

\* oct_behavior t LEFT JOIN nov_outcome n, COALESCE(n.converted_in_nov, 0)
query_train(ev) ==
    {[user_id |-> t.user_id,
      oct_events |-> t.oct_events,
      oct_sessions |-> t.oct_sessions,
      oct_views |-> t.oct_views,
      oct_carts |-> t.oct_carts,
      oct_removes |-> t.oct_removes,
      active_span_days |-> t.active_span_days,
      recency_oct |-> DateDiffDay(t.last_oct_event, NovemberFirst),
      target |-> IF t.user_id \in nov_outcome(ev) THEN 1 ELSE 0]
     : t \in oct_behavior(ev)}

\* What can follow the load of the training set: target_counts[1] raises
\* KeyError when no row has target 1; the split, the training on the GPU
\* and the evaluation are library calls that may raise or not
TrainingOutcomes(rows) ==
    IF \E r \in rows : r.target = 1 THEN {"ok", "failed"} ELSE {"failed"}

\* The training set is loaded into a data frame; the model goes to a pickle
\* file, and no table is written
train_propensity_model ==
    /\ deployment = "local"
    /\ IF con_cached
       THEN ConnectRaises("train_propensity_model")
       ELSE /\ db_path_exists' = TRUE
            /\ UNCHANGED con_cached
            /\ IF ~Has(behavior_db, "events")
               THEN /\ outcome' = [outcome EXCEPT !["train_propensity_model"] = "failed"]
                    /\ UNCHANGED df
               ELSE /\ df' = query_train(behavior_db["events"])
                    /\ \E o \in TrainingOutcomes(query_train(behavior_db["events"])) :
                          outcome' = [outcome EXCEPT !["train_propensity_model"] = o]
            /\ caller_sees' = [caller_sees EXCEPT !["train_propensity_model"] = "return"]
            /\ UNCHANGED <<parquet, parquet_exists, deployment, behavior_db, sample_db,
                           memory_db, funnel_df, rendered>>

-----------------------------------------------------------------------------
(* src/analysis/ab_testing.py *)

\* What can follow the load of the segment: the users are assigned to
\* 'control' and 'treatment' by a seeded generator, whose first draw is
\* 'control'; summary.loc[..] raises KeyError for a group without a user, so
\* fewer than two users end in the except clause; the tests on more users
\* are library calls that may raise or not
ExperimentOutcomes(rows) ==
    IF Cardinality(rows) < 2 THEN {"failed"} ELSE {"ok", "failed"}

\* The segment 'Cant Lose Them' is read from features_users; the result is
\* logged, and no table is written
run_ab_simulation ==
    /\ deployment = "local"
    /\ IF con_cached
       THEN ConnectRaises("run_ab_simulation")
       ELSE /\ db_path_exists' = TRUE
            /\ UNCHANGED con_cached
            /\ IF ~Has(behavior_db, "features_users")
               THEN outcome' = [outcome EXCEPT !["run_ab_simulation"] = "failed"]
               ELSE \E o \in ExperimentOutcomes(
                               {f \in behavior_db["features_users"] :
                                   f.rfm_segment = "Cant Lose Them"}) :
                       outcome' = [outcome EXCEPT !["run_ab_simulation"] = o]
            /\ caller_sees' = [caller_sees EXCEPT !["run_ab_simulation"] = "return"]
            /\ UNCHANGED <<parquet, parquet_exists, deployment, behavior_db,
                           sample_db, memory_db, funnel_df, df, rendered>>

-----------------------------------------------------------------------------
(* src/app/Home.py and src/app/pages: a page is a script that runs from    *)
(* top to bottom; a query on a missing table or column raises, and an      *)
(* exception outside a try block ends the script.                          *)

\* SAMPLE_MODE is false when data/db/behavior.duckdb exists: a stage has
\* opened it at some time (ingest_data opens it only when the raw file is
\* there), and nothing removes it
DatabaseFileExists == db_path_exists

\* The database run_query reads, once get_connection has returned it
Connected ==
    IF deployment = "sample" THEN outcome["get_connection"] = "ok"
    ELSE deployment = "local" /\ DatabaseFileExists

ConnectedDB == IF deployment = "sample" THEN memory_db ELSE behavior_db

\* dim_users has the column is_buyer in the pipeline's database only, and
\* fact_daily_kpis has the column purchases in the in-memory database
\* only (the pipeline names it total_purchases)
IsBuyerColumn == deployment = "local"
PurchasesColumn == deployment = "sample"

\* run_query on a query that reads the tables ts: it raises unless all exist
QueryRuns(ts) == ts \subseteq DOMAIN ConnectedDB

\* get_connection is cached (st.cache_resource): the read-only connection
\* a page opens on the pipeline's database stays open, with its lock on the
\* file, for as long as the dashboard process runs.  The other variables
\* are left as they are
PageFrame ==
    /\ con_cached' = (con_cached \/ deployment = "local")
    /\ UNCHANGED <<parquet, parquet_exists, deployment, behavior_db, sample_db,
                   memory_db, outcome, caller_sees, funnel_df, df, db_path_exists>>

\* The dashboard process ends, and with it the cached connection
dashboard_stops ==
    /\ con_cached
    /\ con_cached' = FALSE
    /\ UNCHANGED <<parquet, parquet_exists, deployment, behavior_db, sample_db,
                   memory_db, outcome, caller_sees, funnel_df, df, rendered,
                   db_path_exists>>

\* Home.py: every query is inside a try block whose except shows a fixed
\* value ("N/A", "8.0%") or a warning
Home ==
    /\ Connected
    /\ rendered' = [rendered EXCEPT !["Home"] =
          IF /\ QueryRuns({"events"})
             /\ QueryRuns({"dim_users"}) /\ IsBuyerColumn
             /\ QueryRuns({"events", "dim_users", "fact_sessions", "fact_daily_kpis"})
          THEN "values" ELSE "fallback"]
    /\ PageFrame

\* pages/0_Project_Overview.py: get_dataset_info counts the events inside a
\* try block whose except returns '0 events (error)'
Project_Overview ==
    /\ Connected
    /\ rendered' = [rendered EXCEPT !["Project_Overview"] =
          IF QueryRuns({"events"}) THEN "values" ELSE "fallback"]
    /\ PageFrame

\* pages/1_Data_Explorer.py: eight sections, each a try block whose except
\* shows st.error; they read events, dim_users (with is_buyer) and
\* fact_sessions, and the first formats MIN(event_time), which is NaT on an
\* empty events table
Data_Explorer ==
    /\ Connected
    /\ rendered' = [rendered EXCEPT !["Data_Explorer"] =
          IF /\ QueryRuns({"events"}) /\ ConnectedDB["events"] # {}
             /\ QueryRuns({"dim_users"}) /\ IsBuyerColumn
             /\ QueryRuns({"fact_sessions"})
          THEN "values" ELSE "fallback"]
    /\ PageFrame

\* pages/3_Executive_Overview.py: the queries on fact_daily_kpis (with
\* SUM(purchases)), fact_sessions and events are outside any try block
Executive_Overview ==
    /\ Connected
    /\ rendered' = [rendered EXCEPT !["Executive_Overview"] =
          IF /\ QueryRuns({"fact_daily_kpis"}) /\ PurchasesColumn
             /\ QueryRuns({"fact_sessions"})
             /\ QueryRuns({"events"})
          THEN "values" ELSE "exception"]
    /\ PageFrame

\* pages/4_User_Intelligence.py: the queries on analysis_rfm_segments and
\* analysis_weekly_retention are outside any try block
User_Intelligence ==
    /\ Connected
    /\ rendered' = [rendered EXCEPT !["User_Intelligence"] =
          IF /\ QueryRuns({"analysis_rfm_segments"})
             /\ QueryRuns({"analysis_weekly_retention"})
          THEN "values" ELSE "exception"]
    /\ PageFrame

\* pages/6_ML_Engine.py: the queries that list brands and products are in
\* a try block whose except shows an error and stops the script; without a
\* rule no product can be selected, which ends in the same except
ML_Engine ==
    /\ Connected
    /\ rendered' = [rendered EXCEPT !["ML_Engine"] =
          IF /\ QueryRuns({"predictions_product_affinity", "dim_products"})
             /\ \E r \in ConnectedDB["predictions_product_affinity"] :
                   \E q \in ConnectedDB["dim_products"] :
                      q.product_id = r.product_a /\ q.brand # "unknown"
          THEN "values" ELSE "fallback"]
    /\ PageFrame

-----------------------------------------------------------------------------
(* src/processing/sessionization.py *)

\* Seconds in one tick of event_time
SecondsPerTick == SecondsPerDay \div TicksPerDay

\* mode(category_code): NULLs are ignored; the values it may return when
\* several are the most frequent, NULL when nothing is left
ModeCode(g) ==
    LET known == {e \in g : e.category_code # NULL}
        Count(c) == Cardinality({e \in known : e.category_code = c})
    IN  IF known = {} THEN {NULL}
        ELSE {c \in {e.category_code : e \in known} :
                 \A d \in {e.category_code : e \in known} : Count(d) <= Count(c)}

\* The row of the group g of session k, with top_category top
SessionRow(g, k, top) ==
    LET first == MIN({e.event_time : e \in g})
        last == MAX({e.event_time : e \in g})
    IN  [user_session |-> k,
         user_id |-> MAX({e.user_id : e \in g}),
         session_start |-> first,
         session_end |-> last,
         duration_sec |-> (last - first) * SecondsPerTick,
         event_count |-> Cardinality(g),
         has_view |-> \E e \in g : e.event_type = "view",
         has_cart |-> \E e \in g : e.event_type = "cart",
         has_remove |-> \E e \in g : e.event_type = "remove_from_cart",
         has_purchase |-> \E e \in g : e.event_type = "purchase",
         session_revenue |-> SUM([e \in g |-> PurchasePrice(e)]),
         top_category |-> top]

\* WHERE user_session IS NOT NULL
WithSession(ev) == {e \in ev : e.user_session # NoSession}

\* fact_sessions: every table the query can produce, one row per session
query_sessions(ev) ==
    LET rows == WithSession(ev)
        keys == {e.user_session : e \in rows}
        Group(k) == {e \in rows : e.user_session = k}
        tops == UNION {ModeCode(Group(k)) : k \in keys}
    IN  {{SessionRow(Group(k), k, f[k]) : k \in keys}
         : f \in {h \in [keys -> tops] : \A k \in keys : h[k] \in ModeCode(Group(k))}}

\* ROUND(.., 4) keeps four decimals: rates are counted in ten-thousandths
RateScale == 10000

\* ROUND(n / d, 4) of two sums over the rows of fs.  An SQL value that may
\* be NULL is a set: {} for NULL, {v} for the value v.  A SUM over no row
\* is NULL, and a division by zero gives NULL
Round4(n, d) == (2 * RateScale * n + d) \div (2 * d)
SumOrNull(fs, n) == IF fs = {} THEN {} ELSE {n}
RateOrNull(fs, n, d) == IF fs = {} \/ d = 0 THEN {} ELSE {Round4(n, d)}

\* The one row of the funnel query over fact_sessions
funnel_query(fs) ==
    LET views == Cardinality({r \in fs : r.has_view})
        carts == Cardinality({r \in fs : r.has_cart})
        purchases == Cardinality({r \in fs : r.has_purchase})
    IN  [sessions_with_view |-> SumOrNull(fs, views),
         sessions_with_cart |-> SumOrNull(fs, carts),
         sessions_with_purchase |-> SumOrNull(fs, purchases),
         view_to_cart_rate |-> RateOrNull(fs, carts, views),
         cart_to_purchase_rate |-> RateOrNull(fs, purchases, carts),
         overall_conversion |-> RateOrNull(fs, purchases, Cardinality(fs))]

\* fact_sessions, then the statistics: AVG(duration_sec) is None on an
\* empty table and the format of None raises, which the except clause logs
\* before the funnel query is reached.
create_sessions ==
    /\ deployment = "local"
    /\ IF con_cached
       THEN ConnectRaises("create_sessions")
       ELSE /\ db_path_exists' = TRUE
            /\ UNCHANGED con_cached
            /\ IF ~Has(behavior_db, "events")
               THEN /\ outcome' = [outcome EXCEPT !["create_sessions"] = "failed"]
                    /\ UNCHANGED <<behavior_db, funnel_df>>
               ELSE \E fs \in query_sessions(behavior_db["events"]) :
                      /\ behavior_db' = Put(behavior_db, "fact_sessions", fs)
                      /\ IF fs = {}
                         THEN /\ outcome' = [outcome EXCEPT !["create_sessions"] = "failed"]
                              /\ UNCHANGED funnel_df
                         ELSE /\ outcome' = [outcome EXCEPT !["create_sessions"] = "ok"]
                              /\ funnel_df' = {funnel_query(fs)}
            /\ caller_sees' = [caller_sees EXCEPT !["create_sessions"] = "return"]
            /\ UNCHANGED <<parquet, parquet_exists, deployment, df, rendered,
                           sample_db, memory_db>>

-----------------------------------------------------------------------------
(* src/processing/features.py *)

\* CAST(flag AS INT)
BoolInt(b) == IF b THEN 1 ELSE 0

ZeroRatio == Ratio(0, 1)

\* COALESCE(STDDEV(duration_sec), 0) over the rows g: the sample standard
\* deviation scale * sqrt(num / den), which is NULL for a single row
StdDevOrZero(g) ==
    LET n == Cardinality(g)
        s1 == SUM([r \in g |-> r.duration_sec \div SecondsPerTick])
        s2 == SUM([r \in g |-> (r.duration_sec \div SecondsPerTick)
                                  * (r.duration_sec \div SecondsPerTick)])
    IN  IF n < 2 THEN [scale |-> 0, num |-> 0, den |-> 1]
        ELSE [scale |-> SecondsPerTick, num |-> n * s2 - s1 * s1, den |-> n * (n - 1)]

\* CASE WHEN SUM(CAST(has_cart AS INT)) = 0 THEN 0 ELSE purchases / carts END
CheckoutRateBug(purchases, carts) == Ratio(purchases, carts)
CheckoutRate(purchases, carts) ==
    IF carts = 0 THEN ZeroRatio ELSE Ratio(purchases, carts)

\* session_features: fact_sessions GROUP BY user_id
query_session_aggs_safeBug(fs) ==
    {[user_id |-> r.user_id,
      total_sessions |-> 1,
      avg_session_duration |-> Ratio(r.duration_sec, 1),
      std_session_duration |-> StdDevOrZero({r}),
      avg_events_per_session |-> Ratio(r.event_count, 1),
      cart_rate |-> Ratio(BoolInt(r.has_cart), 1),
      checkout_rate |-> CheckoutRate(BoolInt(r.has_purchase), BoolInt(r.has_cart))]
     : r \in fs}
query_session_aggs_safe(fs) ==
    {LET g == {r \in fs : r.user_id = u}
         sessions == Cardinality({r \in g : r.user_session # NoSession})
         carts == SUM([r \in g |-> BoolInt(r.has_cart)])
         purchases == SUM([r \in g |-> BoolInt(r.has_purchase)])
     IN  [user_id |-> u,
          total_sessions |-> sessions,
          avg_session_duration |-> Ratio(SUM([r \in g |-> r.duration_sec]), Cardinality(g)),
          std_session_duration |-> StdDevOrZero(g),
          avg_events_per_session |-> Ratio(SUM([r \in g |-> r.event_count]), Cardinality(g)),
          cart_rate |-> Ratio(carts, sessions),
          checkout_rate |-> CheckoutRate(purchases, carts)]
     : u \in {r.user_id : r \in fs}}

\* The columns COALESCE gives a user without a row of analysis_rfm_segments
RfmDefaults ==
    [recency_days |-> -1, frequency_count |-> 0, monetary_value |-> 0,
     segment_name |-> "Browser", rfm_code |-> "000"]

\* The columns COALESCE gives a user without a row of session_features
SessionDefaults ==
    [total_sessions |-> 0, avg_session_duration |-> ZeroRatio,
     std_session_duration |-> [scale |-> 0, num |-> 0, den |-> 1],
     avg_events_per_session |-> ZeroRatio,
     cart_rate |-> ZeroRatio, checkout_rate |-> ZeroRatio]

\* u LEFT JOIN rows ON u.user_id = rows.user_id: the matching rows, or one
\* row of NULLs, which the COALESCEs of the select list turn into defaults
LeftJoinBug(rows, u, defaults) == {r \in rows : r.user_id = u.user_id}
LeftJoin(rows, u, defaults) ==
    LET ms == {r \in rows : r.user_id = u.user_id}
    IN  IF ms = {} THEN {defaults} ELSE ms

\* features_users: dim_users LEFT JOIN analysis_rfm_segments LEFT JOIN
\* session_features
query_features(du, seg, sf) ==
    {[user_id |-> x[1].user_id,
      total_spend |-> x[1].total_spend,
      purchase_count |-> x[1].purchase_count,
      event_count |-> x[1].event_count,
      first_seen |-> x[1].first_seen,
      last_seen |-> x[1].last_seen,
      recency_days |-> x[2].recency_days,
      frequency_raw |-> x[2].frequency_count,
      monetary_raw |-> x[2].monetary_value,
      rfm_segment |-> x[2].segment_name,
      rfm_code |-> x[2].rfm_code,
      total_sessions |-> x[3].total_sessions,
      avg_session_duration |-> x[3].avg_session_duration,
      std_session_duration |-> x[3].std_session_duration,
      avg_events_per_session |-> x[3].avg_events_per_session,
      cart_rate |-> x[3].cart_rate,
      checkout_rate |-> x[3].checkout_rate]
     : x \in UNION {{<<u, r, s>> : r \in LeftJoin(seg, u, RfmDefaults),
                                   s \in LeftJoin(sf, u, SessionDefaults)}
                    : u \in du}}

\* session_features (a TEMP table) from fact_sessions, then features_users;
\* a missing source table raises at the query that reads it.
build_feature_store ==
    /\ deployment = "local"
    /\ IF con_cached
       THEN ConnectRaises("build_feature_store")
       ELSE /\ db_path_exists' = TRUE
            /\ UNCHANGED con_cached
            /\ IF /\ Has(behavior_db, "fact_sessions")
                  /\ Has(behavior_db, "dim_users")
                  /\ Has(behavior_db, "analysis_rfm_segments")
               THEN /\ behavior_db' =
                          Put(behavior_db, "features_users",
                              query_features(behavior_db["dim_users"],
                                             behavior_db["analysis_rfm_segments"],
                                             query_session_aggs_safe(behavior_db["fact_sessions"])))
                    /\ outcome' = [outcome EXCEPT !["build_feature_store"] = "ok"]
               ELSE /\ outcome' = [outcome EXCEPT !["build_feature_store"] = "failed"]
                    /\ UNCHANGED behavior_db
            /\ caller_sees' = [caller_sees EXCEPT !["build_feature_store"] = "return"]
            /\ UNCHANGED <<parquet, parquet_exists, deployment, funnel_df, df, rendered,
                         sample_db, memory_db>>

-----------------------------------------------------------------------------

Init ==
    /\ parquet \in GridStores
    /\ deployment = "local"
    /\ behavior_db = EmptyDB
    /\ sample_db = EmptyDB
    /\ memory_db = EmptyDB
    /\ outcome = [s \in Stages |-> "idle"]
    /\ caller_sees = [s \in Stages |-> "nothing"]
    /\ parquet_exists = TRUE
    /\ funnel_df = {}
    /\ df = {}
    /\ rendered = [p \in Pages |-> "none"]
    /\ db_path_exists = FALSE
    /\ con_cached = FALSE

Next ==
    \/ ingest_data
    \/ create_dimensional_models
    \/ calculate_retention

Spec == Init /\ [][Next]_vars

Deployments == {"local", "cloud", "sample"}

InitRFM ==
    /\ parquet \in BuyerStores
    /\ deployment \in Deployments
    /\ behavior_db = EmptyDB
    /\ sample_db = EmptyDB
    /\ memory_db = EmptyDB
    /\ outcome = [s \in Stages |-> "idle"]
    /\ caller_sees = [s \in Stages |-> "nothing"]
    /\ parquet_exists = TRUE
    /\ funnel_df = {}
    /\ df = {}
    /\ rendered = [p \in Pages |-> "none"]
    /\ db_path_exists = FALSE
    /\ con_cached = FALSE

NextRFM ==
    \/ ingest_data
    \/ perform_segmentation
    \/ build_cloud_database
    \/ get_connection

SpecRFM == InitRFM /\ [][NextRFM]_vars

InitAffinity ==
    /\ parquet \in BasketStores
    /\ deployment \in Deployments
    /\ behavior_db = EmptyDB
    /\ sample_db = EmptyDB
    /\ memory_db = EmptyDB
    /\ outcome = [s \in Stages |-> "idle"]
    /\ caller_sees = [s \in Stages |-> "nothing"]
    /\ parquet_exists = TRUE
    /\ funnel_df = {}
    /\ df = {}
    /\ rendered = [p \in Pages |-> "none"]
    /\ db_path_exists = FALSE
    /\ con_cached = FALSE

NextAffinity ==
    \/ ingest_data
    \/ create_dimensional_models
    \/ build_recommendations
    \/ build_cloud_database
    \/ get_connection

SpecAffinity == InitAffinity /\ [][NextAffinity]_vars

InitSessions ==
    /\ parquet \in SessionStores
    /\ deployment \in Deployments
    /\ behavior_db = EmptyDB
    /\ sample_db = EmptyDB
    /\ memory_db = EmptyDB
    /\ outcome = [s \in Stages |-> "idle"]
    /\ caller_sees = [s \in Stages |-> "nothing"]
    /\ parquet_exists = TRUE
    /\ funnel_df = {}
    /\ df = {}
    /\ rendered = [p \in Pages |-> "none"]
    /\ db_path_exists = FALSE
    /\ con_cached = FALSE

NextSessions ==
    \/ ingest_data
    \/ create_dimensional_models
    \/ create_sessions
    \/ perform_segmentation
    \/ build_feature_store
    \/ build_cloud_database
    \/ get_connection

SpecSessions == InitSessions /\ [][NextSessions]_vars

RerunDeployments == {"local", "cloud"}

InitRerun ==
    /\ parquet \in RerunStores
    /\ parquet_exists \in BOOLEAN
    /\ deployment \in RerunDeployments
    /\ behavior_db = EmptyDB
    /\ sample_db = EmptyDB
    /\ memory_db = EmptyDB
    /\ outcome = [s \in Stages |-> "idle"]
    /\ caller_sees = [s \in Stages |-> "nothing"]
    /\ funnel_df = {}
    /\ df = {}
    /\ rendered = [p \in Pages |-> "none"]
    /\ db_path_exists = FALSE
    /\ con_cached = FALSE

NextRerun ==
    \/ raw_file_changes
    \/ ingest_data
    \/ create_dimensional_models
    \/ calculate_retention
    \/ build_cloud_database

InitPipeline ==
    /\ parquet \in RerunStores
    /\ parquet_exists = TRUE
    /\ deployment = "local"
    /\ behavior_db = EmptyDB
    /\ sample_db = EmptyDB
    /\ memory_db = EmptyDB
    /\ outcome = [s \in Stages |-> "idle"]
    /\ caller_sees = [s \in Stages |-> "nothing"]
    /\ funnel_df = {}
    /\ df = {}
    /\ rendered = [p \in Pages |-> "none"]
    /\ db_path_exists = FALSE
    /\ con_cached = FALSE

NextPipeline ==
    \/ ingest_data
    \/ create_dimensional_models
    \/ create_sessions
    \/ perform_segmentation
    \/ calculate_retention
    \/ build_recommendations
    \/ build_feature_store
    \/ train_propensity_model
    \/ run_ab_simulation

SpecPipeline == InitPipeline /\ [][NextPipeline]_vars

InitPropensity ==
    /\ parquet \in TrainStores
    /\ parquet_exists = TRUE
    /\ deployment = "local"
    /\ behavior_db = EmptyDB
    /\ sample_db = EmptyDB
    /\ memory_db = EmptyDB
    /\ outcome = [s \in Stages |-> "idle"]
    /\ caller_sees = [s \in Stages |-> "nothing"]
    /\ funnel_df = {}
    /\ df = {}
    /\ rendered = [p \in Pages |-> "none"]
    /\ db_path_exists = FALSE
    /\ con_cached = FALSE

NextPropensity ==
    \/ ingest_data
    \/ train_propensity_model

SpecPropensity == InitPropensity /\ [][NextPropensity]_vars

SpecRerun == InitRerun /\ [][NextRerun]_vars

DashboardDeployments == {"local", "sample"}

InitDashboard ==
    /\ parquet \in RerunStores
    /\ parquet_exists = TRUE
    /\ deployment \in DashboardDeployments
    /\ behavior_db = EmptyDB
    /\ sample_db = EmptyDB
    /\ memory_db = EmptyDB
    /\ outcome = [s \in Stages |-> "idle"]
    /\ caller_sees = [s \in Stages |-> "nothing"]
    /\ funnel_df = {}
    /\ df = {}
    /\ rendered = [p \in Pages |-> "none"]
    /\ db_path_exists = FALSE
    /\ con_cached = FALSE

NextDashboard ==
    \/ ingest_data
    \/ create_dimensional_models
    \/ create_sessions
    \/ perform_segmentation
    \/ calculate_retention
    \/ get_connection
    \/ Home
    \/ Project_Overview
    \/ Data_Explorer
    \/ Executive_Overview
    \/ User_Intelligence
    \/ ML_Engine

SpecDashboard == InitDashboard /\ [][NextDashboard]_vars

\* The pipeline and the dashboard process on the same database file
InitLock ==
    /\ parquet \in RerunStores
    /\ parquet_exists \in BOOLEAN
    /\ deployment = "local"
    /\ behavior_db = EmptyDB
    /\ sample_db = EmptyDB
    /\ memory_db = EmptyDB
    /\ outcome = [s \in Stages |-> "idle"]
    /\ caller_sees = [s \in Stages |-> "nothing"]
    /\ funnel_df = {}
    /\ df = {}
    /\ rendered = [p \in Pages |-> "none"]
    /\ db_path_exists = FALSE
    /\ con_cached = FALSE

NextLock ==
    \/ raw_file_changes
    \/ ingest_data
    \/ create_dimensional_models
    \/ run_ab_simulation
    \/ Home
    \/ Project_Overview
    \/ dashboard_stops

SpecLock == InitLock /\ [][NextLock]_vars

-----------------------------------------------------------------------------
(* Claims checked under Spec *)

\* C4: once create_dimensional_models and then calculate_retention have run,
\* every cohort week of dim_users has a weeks_since_first = 0 row in
\* analysis_weekly_retention, and in every such row active_users equals
\* cohort_size (the retention rate is num/den with num = den, i.e. 1.0).
C4_WeekZeroRetentionIsOne ==
    (Has(behavior_db, "dim_users") /\ Has(behavior_db, "analysis_weekly_retention")) =>
        LET du == behavior_db["dim_users"]
            ret == behavior_db["analysis_weekly_retention"]
        IN  /\ \A u \in du : \E r \in ret :
                  /\ r.cohort_week = WeekOf(u.first_seen)
                  /\ r.weeks_since_first = 0
            /\ \A r \in ret : r.weeks_since_first = 0 =>
                  /\ r.active_users = r.cohort_size
                  /\ r.retention_rate.num = r.retention_rate.den
                  /\ r.retention_rate.den > 0

\* A cohort of two users with a week-0 row, and a row of a later week.
C4_Witness ==
    /\ Has(behavior_db, "analysis_weekly_retention")
    /\ outcome["create_dimensional_models"] = "ok"
    /\ outcome["calculate_retention"] = "ok"
    /\ \E r \in behavior_db["analysis_weekly_retention"] :
          r.weeks_since_first = 0 /\ r.cohort_size = 2 /\ r.active_users = 2
    /\ \E r \in behavior_db["analysis_weekly_retention"] :
          r.weeks_since_first > 0 /\ r.active_users < r.cohort_size

\* C9: a run of create_dimensional_models on a database that already holds
\* the dimension tables of the same events leaves dim_users and dim_products
\* as they were.
C9_DimensionalBuilderIdempotent ==
    [][(create_dimensional_models
          /\ Has(behavior_db, "dim_products") /\ Has(behavior_db, "dim_users"))
        => (/\ behavior_db'["dim_users"] = behavior_db["dim_users"]
            /\ behavior_db'["dim_products"] = behavior_db["dim_products"])]_vars

-----------------------------------------------------------------------------
(* Claims checked under SpecRFM *)

SegmentLabels == {"Champions", "Loyal Customers", "New Customers", "Promising",
                  "Need Attention", "Cant Lose Them", "Hibernating", "At Risk"}

\* The buyers of the events table: the users with a purchase event
Buyers(ev) == {e.user_id : e \in {x \in ev : x.event_type = "purchase"}}

\* C1: after perform_segmentation, every row of analysis_rfm_segments has
\* r_score, f_score and m_score in 1..5 and one of the eight segment labels.
C1_ScoresAndLabelsInRange ==
    Has(behavior_db, "analysis_rfm_segments") =>
        \A r \in behavior_db["analysis_rfm_segments"] :
            /\ r.r_score \in 1..5
            /\ r.f_score \in 1..5
            /\ r.m_score \in 1..5
            /\ r.segment_name \in SegmentLabels

\* Six buyers, so that every score value from 1 to 5 is in use.
C1_Witness ==
    /\ Has(behavior_db, "analysis_rfm_segments")
    /\ outcome["perform_segmentation"] = "ok"
    /\ Cardinality(behavior_db["analysis_rfm_segments"]) = 6
    /\ \A v \in 1..5 : \E r \in behavior_db["analysis_rfm_segments"] : r.r_score = v
    /\ \A v \in 1..5 : \E r \in behavior_db["analysis_rfm_segments"] : r.m_score = v

\* The RFM tables of the three databases, with their recency and r_score
RecencyScores ==
    (IF Has(behavior_db, "analysis_rfm_segments")
     THEN {behavior_db["analysis_rfm_segments"]} ELSE {})
    \cup (IF Has(sample_db, "user_rfm_segments")
          THEN {sample_db["user_rfm_segments"]} ELSE {})
    \cup (IF Has(memory_db, "user_rfm_segments")
          THEN {memory_db["user_rfm_segments"]} ELSE {})

\* C2: in every RFM table built, a buyer with fewer recency_days than
\* another has an r_score at least as high.
C2_InvertedRecency ==
    \A t \in RecencyScores : \A a, b \in t :
        a.recency_days < b.recency_days => a.r_score >= b.r_score

\* perform_segmentation has scored six buyers, two of whom tie on recency
\* and got different scores, and the most recent buyer scores 5.
C2_Witness ==
    /\ Has(behavior_db, "analysis_rfm_segments")
    /\ LET t == behavior_db["analysis_rfm_segments"]
       IN  /\ Cardinality(t) = 6
           /\ \E a, b \in t : a.recency_days < b.recency_days /\ a.r_score > b.r_score
           /\ \E a, b \in t : a.recency_days = b.recency_days /\ a.r_score # b.r_score
           /\ \E a \in t : a.r_score = 5 /\ \A b \in t : a.recency_days <= b.recency_days

\* C3: for each metric, the number of rows of analysis_rfm_segments holding
\* a score value is floor(N/5) or ceil(N/5), N being the number of rows.
C3_QuantileBalance ==
    Has(behavior_db, "analysis_rfm_segments") =>
        LET t == behavior_db["analysis_rfm_segments"]
            n == Cardinality(t)
            Sizes == {n \div 5, (n + 4) \div 5}
        IN  \A v \in 1..5 :
              /\ Cardinality({r \in t : r.r_score = v}) \in Sizes
              /\ Cardinality({r \in t : r.f_score = v}) \in Sizes
              /\ Cardinality({r \in t : r.m_score = v}) \in Sizes

\* Six buyers (not a multiple of 5): two of them tie on the monetary value
\* and get different scores, and the lowest score is held twice.
C3_Witness ==
    /\ Has(behavior_db, "analysis_rfm_segments")
    /\ LET t == behavior_db["analysis_rfm_segments"]
       IN  /\ Cardinality(t) = 6
           /\ \E a, b \in t : /\ a.monetary_value = b.monetary_value
                              /\ a.m_score # b.m_score
           /\ Cardinality({r \in t : r.f_score = 1}) = 2

\* Fewer buyers than buckets: three buyers hold the scores 1, 2 and 3.
C3_WitnessFewBuyers ==
    /\ Has(behavior_db, "analysis_rfm_segments")
    /\ Cardinality(behavior_db["analysis_rfm_segments"]) = 3
    /\ {r.f_score : r \in behavior_db["analysis_rfm_segments"]} = {1, 2, 3}

\* C10: analysis_rfm_segments has exactly one row for each user with a
\* purchase event and no row for any other user.
C10_RfmMembership ==
    (Has(behavior_db, "analysis_rfm_segments") /\ Has(behavior_db, "events")) =>
        LET t == behavior_db["analysis_rfm_segments"]
        IN  /\ {r.user_id : r \in t} = Buyers(behavior_db["events"])
            /\ Cardinality(t) = Cardinality(Buyers(behavior_db["events"]))

\* Buyers are segmented while another user of events never bought.
C10_Witness ==
    /\ Has(behavior_db, "analysis_rfm_segments")
    /\ outcome["perform_segmentation"] = "ok"
    /\ Cardinality(behavior_db["analysis_rfm_segments"]) >= 2
    /\ \E e \in behavior_db["events"] :
          e.user_id \notin {r.user_id : r \in behavior_db["analysis_rfm_segments"]}

-----------------------------------------------------------------------------
(* Claims checked under SpecAffinity *)

\* support(x): the number of distinct sessions in which x was purchased
Support(ev, p) ==
    Cardinality({e.user_session : e \in {x \in ev : x.event_type = "purchase"
                                                    /\ x.product_id = p}}
                \ {NoSession})

\* The number of distinct sessions with a purchase
PurchaseSessions(ev) ==
    Cardinality({e.user_session : e \in {x \in ev : x.event_type = "purchase"}}
                \ {NoSession})

\* The affinity tables of the three databases
AffinityTables ==
    (IF Has(behavior_db, "predictions_product_affinity")
     THEN {behavior_db["predictions_product_affinity"]} ELSE {})
    \cup (IF Has(sample_db, "predictions_product_affinity")
          THEN {sample_db["predictions_product_affinity"]} ELSE {})
    \cup (IF Has(memory_db, "predictions_product_affinity")
          THEN {memory_db["predictions_product_affinity"]} ELSE {})

\* C5: in every affinity table built, every rule has product_a < product_b
\* (so no rule pairs a product with itself and no pair is stored twice).
C5_CanonicalPairs ==
    \A t \in AffinityTables : \A r \in t : r.product_a < r.product_b

\* What holds of C5: the tables of build_cloud_database and get_connection
\* are canonical, and build_recommendations stores no product with itself.
C5_CloudBuildersCanonical ==
    /\ \A t \in AffinityTables \ (IF Has(behavior_db, "predictions_product_affinity")
                                  THEN {behavior_db["predictions_product_affinity"]}
                                  ELSE {}) :
          \A r \in t : r.product_a < r.product_b
    /\ \A t \in AffinityTables : \A r \in t : r.product_a # r.product_b

\* C6: for every rule stored by build_recommendations,
\* lift * support(a) * support(b) = pair_count * total_sessions.
C6_LiftInvariant ==
    (Has(behavior_db, "predictions_product_affinity") /\ Has(behavior_db, "events")) =>
        LET ev == behavior_db["events"]
        IN  \A r \in behavior_db["predictions_product_affinity"] :
              r.lift.num * Support(ev, r.product_a) * Support(ev, r.product_b)
                  = r.pair_count * PurchaseSessions(ev) * r.lift.den

\* C7: for every rule stored by build_recommendations, confidence is
\* pair_count / support(a) and lies between 0 and 1.
C7_ConfidenceIsProbability ==
    (Has(behavior_db, "predictions_product_affinity") /\ Has(behavior_db, "events")) =>
        LET ev == behavior_db["events"]
        IN  \A r \in behavior_db["predictions_product_affinity"] :
              /\ r.confidence.num * Support(ev, r.product_a)
                    = r.pair_count * r.confidence.den
              /\ 0 <= r.confidence.num
              /\ r.confidence.num <= r.confidence.den

\* C8: every stored rule has pair_count at least the builder's minimum
\* support (5 for build_recommendations, 3 for the other two) and
\* lift > 1.2.
C8_SupportAndLiftThresholds ==
    /\ Has(behavior_db, "predictions_product_affinity") =>
          \A r \in behavior_db["predictions_product_affinity"] :
              r.pair_count >= MinSupport /\ AboveLiftThreshold(r.lift)
    /\ Has(sample_db, "predictions_product_affinity") =>
          \A r \in sample_db["predictions_product_affinity"] :
              r.pair_count >= CloudMinSupport /\ r.lift.above
    /\ Has(memory_db, "predictions_product_affinity") =>
          \A r \in memory_db["predictions_product_affinity"] :
              r.pair_count >= CloudMinSupport /\ r.lift.above

\* What holds of C8: build_recommendations and build_cloud_database keep
\* their thresholds, and get_connection keeps its minimum support.
C8_ThresholdsKept ==
    /\ Has(behavior_db, "predictions_product_affinity") =>
          \A r \in behavior_db["predictions_product_affinity"] :
              r.pair_count >= MinSupport /\ AboveLiftThreshold(r.lift)
    /\ Has(sample_db, "predictions_product_affinity") =>
          \A r \in sample_db["predictions_product_affinity"] :
              r.pair_count >= CloudMinSupport /\ r.lift.above
    /\ Has(memory_db, "predictions_product_affinity") =>
          \A r \in memory_db["predictions_product_affinity"] :
              r.pair_count >= CloudMinSupport

-----------------------------------------------------------------------------
(* The segment ladder *)

\* The rules of the ladder in their order: label, bounds on r and on f
LadderRules == <<
    [label |-> "Champions",       rlo |-> 4, rhi |-> 5, flo |-> 4, fhi |-> 5],
    [label |-> "Loyal Customers", rlo |-> 3, rhi |-> 5, flo |-> 3, fhi |-> 5],
    [label |-> "New Customers",   rlo |-> 4, rhi |-> 5, flo |-> 1, fhi |-> 1],
    [label |-> "Promising",       rlo |-> 3, rhi |-> 5, flo |-> 1, fhi |-> 1],
    [label |-> "Need Attention",  rlo |-> 2, rhi |-> 2, flo |-> 2, fhi |-> 5],
    [label |-> "Cant Lose Them",  rlo |-> 1, rhi |-> 1, flo |-> 4, fhi |-> 5],
    [label |-> "Hibernating",     rlo |-> 1, rhi |-> 1, flo |-> 1, fhi |-> 2] >>

RuleMatches(i, r, f) ==
    /\ LadderRules[i].rlo <= r /\ r <= LadderRules[i].rhi
    /\ LadderRules[i].flo <= f /\ f <= LadderRules[i].fhi

\* The label of the first rule that matches, else At Risk
FirstMatch(r, f) ==
    LET hits == {i \in 1..Len(LadderRules) : RuleMatches(i, r, f)}
    IN  IF hits = {} THEN "At Risk" ELSE LadderRules[MIN(hits)].label

\* C12: segment_name is the label of the first matching rule of the ladder
\* for every (r, f) in 1..5 x 1..5, each of the eight labels is the label of
\* some (r, f), and every row of analysis_rfm_segments carries the label of
\* its own r_score and f_score.
C12_SegmentLadder ==
    /\ \A r \in 1..5, f \in 1..5 :
          segment_name(r, f) = FirstMatch(r, f) /\ segment_name(r, f) \in SegmentLabels
    /\ \A l \in SegmentLabels : \E r \in 1..5, f \in 1..5 : segment_name(r, f) = l
    /\ Has(behavior_db, "analysis_rfm_segments") =>
          \A x \in behavior_db["analysis_rfm_segments"] :
              x.segment_name = FirstMatch(x.r_score, x.f_score)

\* Six buyers are labelled with at least four different labels, a
\* Champion and a Hibernating one among them.
C12_Witness ==
    /\ Has(behavior_db, "analysis_rfm_segments")
    /\ LET t == behavior_db["analysis_rfm_segments"]
       IN  /\ Cardinality(t) = 6
           /\ \E x \in t : x.segment_name = "Champions"
           /\ \E x \in t : x.segment_name = "Hibernating"
           /\ Cardinality({x.segment_name : x \in t}) >= 4

-----------------------------------------------------------------------------
(* The tables of create_dimensional_models, checked under Spec *)

\* The purchase events of user u
PurchasesOf(ev, u) == {e \in ev : e.user_id = u /\ e.event_type = "purchase"}

\* C15: dim_users has exactly one row per distinct user_id of events, with
\* purchase_count the number of the user's purchase events, total_spend the
\* sum of their prices, and is_buyer true iff purchase_count > 0.
C15_DimUsersPerUser ==
    (Has(behavior_db, "dim_users") /\ Has(behavior_db, "events")) =>
        LET ev == behavior_db["events"]
            du == behavior_db["dim_users"]
        IN  /\ {r.user_id : r \in du} = {e.user_id : e \in ev}
            /\ Cardinality(du) = Cardinality({e.user_id : e \in ev})
            /\ \A r \in du :
                  /\ r.purchase_count = Cardinality(PurchasesOf(ev, r.user_id))
                  /\ r.total_spend = SUM([e \in PurchasesOf(ev, r.user_id) |-> e.price])
                  /\ r.is_buyer = (r.purchase_count > 0)

\* A buyer with two purchases at different prices beside a user who only
\* viewed a priced product.
C15_Witness ==
    /\ Has(behavior_db, "dim_users")
    /\ outcome["create_dimensional_models"] = "ok"
    /\ \E r \in behavior_db["dim_users"] :
          r.purchase_count = 2 /\ r.total_spend = 3 /\ r.is_buyer
    /\ \E r \in behavior_db["dim_users"] :
          r.purchase_count = 0 /\ r.total_spend = 0 /\ ~r.is_buyer /\ r.event_count = 1

\* The latest event_time of product p
LastTimeOf(ev, p) == MAX({e.event_time : e \in {x \in ev : x.product_id = p}})

\* C16: dim_products has exactly one row per distinct product_id of events;
\* the row's current_price, category_id, category_code and brand are those
\* of one single event of the product at its maximum event_time, with a
\* null category_code or brand stored as 'unknown'.
C16_DimProductsLatestEvent ==
    (Has(behavior_db, "dim_products") /\ Has(behavior_db, "events")) =>
        LET ev == behavior_db["events"]
            dp == behavior_db["dim_products"]
        IN  /\ {r.product_id : r \in dp} = {e.product_id : e \in ev}
            /\ Cardinality(dp) = Cardinality({e.product_id : e \in ev})
            /\ \A r \in dp :
                  /\ r.category_code # NULL /\ r.brand # NULL
                  /\ \E e \in ev :
                        /\ e.product_id = r.product_id
                        /\ e.event_time = LastTimeOf(ev, r.product_id)
                        /\ r.current_price = e.price
                        /\ r.category_id = e.category_id
                        /\ r.category_code = (IF e.category_code = NULL
                                              THEN "unknown" ELSE e.category_code)
                        /\ r.brand = (IF e.brand = NULL THEN "unknown" ELSE e.brand)

\* Product 1 was sold at price 2 with a category and a brand, and later at
\* price 1 without them: its row has the later price and 'unknown' twice.
C16_Witness ==
    /\ Has(behavior_db, "dim_products")
    /\ \E r \in behavior_db["dim_products"] :
          /\ r.product_id = 1 /\ r.current_price = 1
          /\ r.category_code = "unknown" /\ r.brand = "unknown"
          /\ \E e \in behavior_db["events"] :
                /\ e.product_id = 1 /\ e.price = 2 /\ e.brand = "acme"
                /\ e.event_time < LastTimeOf(behavior_db["events"], 1)

\* The events of calendar date d
EventsOn(ev, d) == {e \in ev : DateOf(e.event_time) = d}

\* The events of date d of one type
EventsOfType(ev, d, ty) == {e \in EventsOn(ev, d) : e.event_type = ty}

\* C17: fact_daily_kpis has exactly one row per distinct calendar date of
\* events, holding the counts of the events, views, carts and purchases of
\* the date and the sum of its purchase prices; summed over the dates,
\* daily_revenue equals the sum of total_spend over dim_users.
C17_DailyKpisPerDate ==
    (/\ Has(behavior_db, "fact_daily_kpis")
     /\ Has(behavior_db, "dim_users")
     /\ Has(behavior_db, "events")) =>
        LET ev == behavior_db["events"]
            fd == behavior_db["fact_daily_kpis"]
            du == behavior_db["dim_users"]
        IN  /\ {r.date : r \in fd} = {DateOf(e.event_time) : e \in ev}
            /\ Cardinality(fd) = Cardinality({DateOf(e.event_time) : e \in ev})
            /\ \A r \in fd :
                  /\ r.total_events = Cardinality(EventsOn(ev, r.date))
                  /\ r.total_views = Cardinality(EventsOfType(ev, r.date, "view"))
                  /\ r.total_carts = Cardinality(EventsOfType(ev, r.date, "cart"))
                  /\ r.total_purchases = Cardinality(EventsOfType(ev, r.date, "purchase"))
                  /\ r.daily_revenue =
                        SUM([e \in EventsOfType(ev, r.date, "purchase") |-> e.price])
            /\ SUM([r \in fd |-> r.daily_revenue]) = SUM([u \in du |-> u.total_spend])

\* Two dates: one with a view and a cart and no revenue, one with a purchase.
C17_Witness ==
    /\ Has(behavior_db, "fact_daily_kpis")
    /\ outcome["create_dimensional_models"] = "ok"
    /\ Cardinality(behavior_db["fact_daily_kpis"]) = 2
    /\ \E r \in behavior_db["fact_daily_kpis"] :
          /\ r.total_views = 1 /\ r.total_carts = 1
          /\ r.total_purchases = 0 /\ r.daily_revenue = 0
    /\ \E r \in behavior_db["fact_daily_kpis"] :
          r.total_purchases = 1 /\ r.daily_revenue > 0 /\ r.total_events = 1

-----------------------------------------------------------------------------
(* Determinism and the recency reference of the RFM builders, under SpecRFM *)

\* C18: a run of perform_segmentation on an Event Store that an earlier run
\* has segmented leaves analysis_rfm_segments as it was, ties of buyers on
\* a metric included.
C18_SegmentationDeterministic ==
    [][(/\ perform_segmentation
        /\ Has(behavior_db, "analysis_rfm_segments")
        /\ Has(behavior_db', "analysis_rfm_segments"))
       => behavior_db'["analysis_rfm_segments"] = behavior_db["analysis_rfm_segments"]]_vars

\* The day of the latest purchase of user u
LastPurchaseDay(ev, u) ==
    MAX({DateOf(e.event_time) : e \in {x \in ev : x.user_id = u
                                                 /\ x.event_type = "purchase"}})

\* The day of the latest event of the Event Store
LastEventDay(ev) == MAX({DateOf(e.event_time) : e \in ev})

\* Whether every row of the RFM table t counts its recency from the latest
\* event of ev
RecencyFromLastEvent(t, ev) ==
    \A r \in t :
        /\ r.recency_days = LastEventDay(ev) - LastPurchaseDay(ev, r.user_id)
        /\ r.recency_days >= 0

\* C19: in every RFM table built, recency_days of a buyer is the number of
\* days from the buyer's latest purchase to the maximum event_time of the
\* Event Store (so it is >= 0 and independent of the date of the run).
C19_RecencyReference ==
    /\ Has(behavior_db, "analysis_rfm_segments") =>
          RecencyFromLastEvent(behavior_db["analysis_rfm_segments"], behavior_db["events"])
    /\ Has(sample_db, "user_rfm_segments") =>
          RecencyFromLastEvent(sample_db["user_rfm_segments"], sample_db["events"])
    /\ Has(memory_db, "user_rfm_segments") =>
          RecencyFromLastEvent(memory_db["user_rfm_segments"], memory_db["events"])

\* What holds of C19: perform_segmentation counts from the latest event;
\* the two other builders count from the date of the run, which is at least
\* as late.
C19_RecencyOfSegmentation ==
    /\ Has(behavior_db, "analysis_rfm_segments") =>
          RecencyFromLastEvent(behavior_db["analysis_rfm_segments"], behavior_db["events"])
    /\ \A db \in {sample_db, memory_db} :
          Has(db, "user_rfm_segments") =>
              \A r \in db["user_rfm_segments"] :
                  r.recency_days >= LastEventDay(db["events"])
                                        - LastPurchaseDay(db["events"], r.user_id)

-----------------------------------------------------------------------------
(* The session tables, checked under SpecSessions *)

\* The session identifiers of the events
SessionIds(ev) == {e.user_session : e \in ev} \ {NoSession}

\* Whether the table t has exactly one row per session identifier of ev
OneRowPerSession(t, ev) ==
    /\ \A a, b \in t : a.user_session = b.user_session => a = b
    /\ SessionIds(ev) \subseteq {r.user_session : r \in t}
    /\ \A r \in t : r.user_session # NoSession => r.user_session \in SessionIds(ev)

\* Whether the events without a session contribute to no row of t
NullSessionsExcluded(t, ev) ==
    /\ \A r \in t : r.user_session # NoSession
    /\ SUM([r \in t |-> r.event_count])
          = Cardinality({e \in ev : e.user_session # NoSession})

\* C13: every fact_sessions table built has exactly one row per distinct
\* session identifier, carrying a single user_id, also when events of two
\* users share a session identifier.
C13_OneUserPerSession ==
    /\ (Has(behavior_db, "fact_sessions") /\ Has(behavior_db, "events")) =>
          OneRowPerSession(behavior_db["fact_sessions"], behavior_db["events"])
    /\ Has(sample_db, "fact_sessions") =>
          OneRowPerSession(sample_db["fact_sessions"], sample_db["events"])
    /\ Has(memory_db, "fact_sessions") =>
          OneRowPerSession(memory_db["fact_sessions"], memory_db["events"])

\* What holds of C13: the table of create_sessions has one row per session.
C13_SessionizerOneRowPerSession ==
    (Has(behavior_db, "fact_sessions") /\ Has(behavior_db, "events")) =>
        OneRowPerSession(behavior_db["fact_sessions"], behavior_db["events"])

\* C14: in every fact_sessions table built no row has a null user_session,
\* and event_count summed over the rows is the number of events with a
\* non-null session identifier.
C14_NullSessionsExcluded ==
    /\ (Has(behavior_db, "fact_sessions") /\ Has(behavior_db, "events")) =>
          NullSessionsExcluded(behavior_db["fact_sessions"], behavior_db["events"])
    /\ Has(sample_db, "fact_sessions") =>
          NullSessionsExcluded(sample_db["fact_sessions"], sample_db["events"])
    /\ Has(memory_db, "fact_sessions") =>
          NullSessionsExcluded(memory_db["fact_sessions"], memory_db["events"])

\* What holds of C14: the table of create_sessions has no row of events
\* without a session.
C14_SessionizerSkipsNullSessions ==
    (Has(behavior_db, "fact_sessions") /\ Has(behavior_db, "events")) =>
        NullSessionsExcluded(behavior_db["fact_sessions"], behavior_db["events"])

-----------------------------------------------------------------------------
(* The feature store, checked under SpecSessions *)

\* Whether x is a quotient with a value
IsRatio(x) == x.num \in Int /\ x.den \in Int /\ x.den > 0

\* The rows of features_users of the user u
FeaturesOf(ft, u) == {f \in ft : f.user_id = u}

\* C11: after build_feature_store, every user of dim_users without a row in
\* analysis_rfm_segments has in features_users rfm_segment 'Browser',
\* monetary_raw 0, frequency_raw 0, recency_days -1 and rfm_code '000';
\* every user without a row in fact_sessions has all session-derived fields
\* equal to 0; and no RFM or session column of features_users is null.
C11_NonBuyerDefaults ==
    (/\ Has(behavior_db, "features_users")
     /\ Has(behavior_db, "dim_users")
     /\ Has(behavior_db, "analysis_rfm_segments")
     /\ Has(behavior_db, "fact_sessions")) =>
        LET ft == behavior_db["features_users"]
            du == behavior_db["dim_users"]
            seg == behavior_db["analysis_rfm_segments"]
            fs == behavior_db["fact_sessions"]
        IN  /\ \A u \in du :
                  (\A r \in seg : r.user_id # u.user_id) =>
                      /\ FeaturesOf(ft, u.user_id) # {}
                      /\ \A f \in FeaturesOf(ft, u.user_id) :
                            /\ f.rfm_segment = "Browser"
                            /\ f.monetary_raw = 0
                            /\ f.frequency_raw = 0
                            /\ f.recency_days = -1
                            /\ f.rfm_code = "000"
            /\ \A u \in du :
                  (\A r \in fs : r.user_id # u.user_id) =>
                      /\ FeaturesOf(ft, u.user_id) # {}
                      /\ \A f \in FeaturesOf(ft, u.user_id) :
                            /\ f.total_sessions = 0
                            /\ f.avg_session_duration.num = 0
                            /\ f.std_session_duration.scale * f.std_session_duration.num = 0
                            /\ f.avg_events_per_session.num = 0
                            /\ f.cart_rate.num = 0
                            /\ f.checkout_rate.num = 0
            /\ \A f \in ft :
                  /\ f.recency_days \in Int
                  /\ f.frequency_raw \in Int
                  /\ f.monetary_raw \in Int
                  /\ f.rfm_segment \in SegmentLabels \cup {"Browser"}
                  /\ f.rfm_code # NULL
                  /\ f.total_sessions \in Int
                  /\ IsRatio(f.avg_session_duration)
                  /\ IsRatio(f.std_session_duration)
                  /\ IsRatio(f.avg_events_per_session)
                  /\ IsRatio(f.cart_rate)
                  /\ IsRatio(f.checkout_rate)

\* The feature store holds a browser with sessions of different durations
\* and a buyer without any session row.
C11_Witness ==
    /\ Has(behavior_db, "features_users")
    /\ outcome["build_feature_store"] = "ok"
    /\ \E f \in behavior_db["features_users"] :
          /\ f.rfm_segment = "Browser" /\ f.recency_days = -1
          /\ f.total_sessions >= 2 /\ f.std_session_duration.num > 0
    /\ \E f \in behavior_db["features_users"] :
          /\ f.rfm_segment # "Browser" /\ f.monetary_raw > 0
          /\ f.total_sessions = 0 /\ f.cart_rate.num = 0

-----------------------------------------------------------------------------
(* Failure propagation, checked under SpecSessions *)

PipelineStages == {"ingest_data", "create_dimensional_models", "create_sessions",
                   "perform_segmentation", "calculate_retention",
                   "build_recommendations", "build_feature_store"}

\* C20: a pipeline stage in which a query raised ends with an exception
\* that its caller sees, not with a normal return.
C20_FailurePropagates ==
    \A s \in PipelineStages :
        outcome[s] = "failed" => caller_sees[s] = "exception"

\* What holds of C20: a failed stage has logged the error once and has
\* returned normally to its caller.
C20_FailureLoggedAndSwallowed ==
    \A s \in PipelineStages :
        outcome[s] = "failed" => caller_sees[s] = "return"

-----------------------------------------------------------------------------
(* Missing input and re-runs, checked under SpecRerun *)

\* C21: when the raw file is absent, a run of ingest_data or of
\* build_cloud_database logs an error and writes nothing: no table is
\* created or replaced, and a database that existed before the run, with
\* all its tables, is left as it was.
C21_MissingInputNoOutput ==
    [][(~parquet_exists /\ (ingest_data \/ build_cloud_database))
         => /\ UNCHANGED <<behavior_db, sample_db, memory_db, db_path_exists>>
            /\ deployment = "local" => outcome'["ingest_data"] = "failed"
            /\ deployment = "cloud" => outcome'["build_cloud_database"] = "failed"]_vars

\* ingest_data has run without its raw file on a database that already
\* held a non-empty events table
C21_Witness ==
    /\ ~parquet_exists
    /\ outcome["ingest_data"] = "failed"
    /\ Has(behavior_db, "events") /\ behavior_db["events"] # {}

\* build_cloud_database has run without the sample parquet while a database
\* built by an earlier run existed
C21_WitnessCloud ==
    /\ ~parquet_exists
    /\ outcome["build_cloud_database"] = "failed"
    /\ Has(sample_db, "events") /\ sample_db["events"] # {}

\* The tables named in names, as they are in db (a table that does not
\* exist is left out)
OutputsOf(db, names) == [t \in names \cap DOMAIN db |-> db[t]]

DimensionalOutputs == {"dim_products", "fact_daily_kpis", "dim_users"}
RetentionOutputs == {"analysis_weekly_retention", "analysis_churn_risk"}

\* After the step, the three tables of create_dimensional_models are those
\* its queries give on the events table
DimensionalOutputsNew ==
    /\ Has(behavior_db, "events")
    /\ DimensionalOutputs \subseteq DOMAIN behavior_db'
    /\ behavior_db'["dim_products"] \in query_products(behavior_db["events"])
    /\ behavior_db'["fact_daily_kpis"] = query_daily(behavior_db["events"])
    /\ behavior_db'["dim_users"] = query_users(behavior_db["events"])

\* After the step, the two tables of calculate_retention are those its
\* queries give on dim_users and the events table; without an event there
\* is no reference date, and a churn table can be derived only for a
\* dim_users without a row
RetentionOutputsNew ==
    /\ Has(behavior_db, "events") /\ Has(behavior_db, "dim_users")
    /\ behavior_db["events"] # {} \/ behavior_db["dim_users"] = {}
    /\ RetentionOutputs \subseteq DOMAIN behavior_db'
    /\ behavior_db'["analysis_weekly_retention"] =
          query_retention(behavior_db["dim_users"], behavior_db["events"])
    /\ behavior_db'["analysis_churn_risk"] =
          query_churn(behavior_db["dim_users"],
                      IF behavior_db["events"] = {} THEN NULL
                      ELSE MAX({e.event_time : e \in behavior_db["events"]}))

\* After the step, the database file holds every table, built from the
\* sample parquet
CloudDatabaseNew ==
    /\ DOMAIN sample_db' = {"events", "dim_products", "dim_users",
                            "fact_sessions", "fact_daily_kpis",
                            "user_rfm_segments", "predictions_product_affinity"}
    /\ sample_db'["events"] = parquet
    /\ sample_db'["dim_users"] = cloud_dim_users(parquet)
    /\ sample_db'["fact_sessions"] = cloud_fact_sessions(parquet)
    /\ sample_db'["fact_daily_kpis"] = cloud_fact_daily_kpis(parquet)

\* C22: a run of a stage, whether it ends well or with a logged error,
\* leaves the output tables of the stage either all as they were before
\* the run or all as derived from the current events table (the three
\* tables of create_dimensional_models, the two of calculate_retention,
\* the whole file of build_cloud_database), never some old and some new.
C22_WholesaleReplacement ==
    [][/\ create_dimensional_models =>
            \/ OutputsOf(behavior_db', DimensionalOutputs)
                  = OutputsOf(behavior_db, DimensionalOutputs)
            \/ DimensionalOutputsNew
       /\ calculate_retention =>
            \/ OutputsOf(behavior_db', RetentionOutputs)
                  = OutputsOf(behavior_db, RetentionOutputs)
            \/ RetentionOutputsNew
       /\ build_cloud_database =>
            \/ sample_db' = sample_db
            \/ CloudDatabaseNew]_vars

\* What holds of C22: the stages whose queries all succeed or fail together
\* on a well-formed events table replace their tables together.
C22_DimensionalAndCloudReplaceTogether ==
    [][/\ create_dimensional_models =>
            \/ OutputsOf(behavior_db', DimensionalOutputs)
                  = OutputsOf(behavior_db, DimensionalOutputs)
            \/ DimensionalOutputsNew
       /\ build_cloud_database =>
            \/ sample_db' = sample_db
            \/ CloudDatabaseNew]_vars

\* C23: a run of create_dimensional_models on an events table that exists
\* and has no rows creates dim_products, fact_daily_kpis and dim_users as
\* empty tables and ends without an error being logged or raised.
C23_EmptyStoreNoError ==
    [][(/\ create_dimensional_models
        /\ Has(behavior_db, "events") /\ behavior_db["events"] = {})
         => /\ DimensionalOutputs \subseteq DOMAIN behavior_db'
            /\ \A t \in DimensionalOutputs : behavior_db'[t] = {}
            /\ outcome'["create_dimensional_models"] = "ok"
            /\ caller_sees'["create_dimensional_models"] = "return"]_vars

\* What holds of C23: the three tables are created empty, and the run ends
\* with a logged error (the revenue total of the verification is None).
C23_EmptyTablesAndLoggedError ==
    [][(/\ create_dimensional_models
        /\ Has(behavior_db, "events") /\ behavior_db["events"] = {})
         => /\ DimensionalOutputs \subseteq DOMAIN behavior_db'
            /\ \A t \in DimensionalOutputs : behavior_db'[t] = {}
            /\ outcome'["create_dimensional_models"] = "failed"
            /\ caller_sees'["create_dimensional_models"] = "return"]_vars

-----------------------------------------------------------------------------
(* The funnel and the rates of the feature store, checked under            *)
(* SpecSessions                                                            *)

\* The sessions table a step has just written, and what its funnel row
\* must say: a rate whose denominator counts no session is NULL
FunnelSentinels(fs, r) ==
    /\ (\A x \in fs : ~x.has_view) => r.view_to_cart_rate = {}
    /\ (\A x \in fs : ~x.has_cart) => r.cart_to_purchase_rate = {}
    /\ fs = {} => r.overall_conversion = {}

\* C24: a run of create_sessions on an events table creates fact_sessions,
\* computes the funnel row, in which view_to_cart_rate is NULL when no
\* session has a view, cart_to_purchase_rate is NULL when no session has a
\* cart and overall_conversion is NULL when there is no session at all,
\* and ends without an error.
C24_FunnelRateSentinel ==
    [][(create_sessions /\ Has(behavior_db, "events"))
         => /\ Has(behavior_db', "fact_sessions")
            /\ funnel_df' # {}
            /\ \A r \in funnel_df' : FunnelSentinels(behavior_db'["fact_sessions"], r)
            /\ outcome'["create_sessions"] = "ok"]_vars

\* What holds of C24: fact_sessions is always created; when it has a row
\* the funnel row is computed with NULL for a rate without sessions in its
\* denominator; when it has no row the run ends with a logged error before
\* the funnel query, and no funnel row is computed.
C24_SentinelUnlessNoSession ==
    [][(create_sessions /\ Has(behavior_db, "events"))
         => /\ Has(behavior_db', "fact_sessions")
            /\ IF behavior_db'["fact_sessions"] # {}
               THEN /\ funnel_df' = {funnel_query(behavior_db'["fact_sessions"])}
                    /\ \A r \in funnel_df' :
                          FunnelSentinels(behavior_db'["fact_sessions"], r)
                    /\ outcome'["create_sessions"] = "ok"
               ELSE /\ funnel_df' = funnel_df
                    /\ outcome'["create_sessions"] = "failed"]_vars

\* A funnel row with a NULL view_to_cart_rate has been computed
C24_NullRateComputed ==
    \E r \in funnel_df : r.view_to_cart_rate = {} /\ r.overall_conversion # {}

\* The rows of fact_sessions attributed to user u
SessionsOfUser(fs, u) == {r \in fs : r.user_id = u}

\* C25: in features_users, for every user with at least one session,
\* cart_rate is the number of the user's sessions with a cart over the
\* number of the user's sessions, a value between 0 and 1, and
\* checkout_rate is the number of sessions with a purchase over the number
\* of sessions with a cart when the user has a session with a cart, and 0
\* when the user has none.
C25_GuardedRates ==
    (Has(behavior_db, "features_users") /\ Has(behavior_db, "fact_sessions")) =>
        \A f \in behavior_db["features_users"] :
            LET g == SessionsOfUser(behavior_db["fact_sessions"], f.user_id)
                carts == Cardinality({r \in g : r.has_cart})
                purchases == Cardinality({r \in g : r.has_purchase})
            IN  g # {} =>
                  /\ f.cart_rate = Ratio(carts, Cardinality(g))
                  /\ 0 <= f.cart_rate.num /\ f.cart_rate.num <= f.cart_rate.den
                  /\ f.cart_rate.den > 0
                  /\ carts > 0 => f.checkout_rate = Ratio(purchases, carts)
                  /\ carts = 0 => f.checkout_rate = Ratio(0, 1)

\* features_users holds a user with a session with a cart and a purchase,
\* and a user whose only session has a purchase and no cart
C25_Witness ==
    /\ Has(behavior_db, "features_users") /\ Has(behavior_db, "fact_sessions")
    /\ \E f, g \in behavior_db["features_users"] :
          /\ f.total_sessions > 0 /\ f.cart_rate.num > 0
          /\ f.checkout_rate = Ratio(1, 1)
          /\ g.total_sessions > 0 /\ g.cart_rate = Ratio(0, 1)
          /\ g.checkout_rate = Ratio(0, 1)
          /\ \E r \in SessionsOfUser(behavior_db["fact_sessions"], g.user_id) :
                r.has_purchase

-----------------------------------------------------------------------------
(* The dashboard, checked under SpecDashboard *)

\* C26: whatever tables and columns the connected database lacks, no run
\* of a dashboard page ends with an unhandled exception: the page shows
\* its values, or a fallback for what it could not query.
C26_DashboardTolerance ==
    \A p \in Pages : rendered[p] # "exception"

\* What holds of C26: Home, the Project Overview, the Data Explorer and the
\* ML Engine page never end with an exception, and the two other pages end
\* with one exactly when a table or column they query was missing when they
\* ran.
C26_GuardedPagesOnly ==
    /\ rendered["Home"] # "exception"
    /\ rendered["Project_Overview"] # "exception"
    /\ rendered["Data_Explorer"] # "exception"
    /\ rendered["ML_Engine"] # "exception"
    /\ [][/\ Executive_Overview =>
               (rendered'["Executive_Overview"] = "exception"
                  <=> ~(/\ {"fact_daily_kpis", "fact_sessions", "events"}
                             \subseteq DOMAIN ConnectedDB
                        /\ PurchasesColumn))
          /\ User_Intelligence =>
               (rendered'["User_Intelligence"] = "exception"
                  <=> ~({"analysis_rfm_segments", "analysis_weekly_retention"}
                           \subseteq DOMAIN ConnectedDB))]_vars

\* Home has shown a fallback for a missing table, and both unguarded pages
\* have shown their values on some database
C26_HomeFallback ==
    /\ rendered["Home"] = "fallback"
    /\ ~Has(ConnectedDB, "dim_users")
C26_UnguardedPagesCanRender ==
    \/ rendered["Executive_Overview"] = "values"
    \/ rendered["User_Intelligence"] = "values"

-----------------------------------------------------------------------------
(* The events table under the stages that read it, checked under           *)
(* SpecPipeline                                                            *)

ProcessingStages == (PipelineStages \ {"ingest_data"}) \cup {"train_propensity_model"}

\* C27: only ingestion writes the events table: a run of
\* create_dimensional_models, create_sessions, perform_segmentation,
\* calculate_retention, build_recommendations, build_feature_store or
\* train_propensity_model, whether it ends well or not, neither creates
\* nor replaces nor changes the events table.
C27_EventStoreImmutable ==
    [][(\/ create_dimensional_models \/ create_sessions
        \/ perform_segmentation \/ calculate_retention
        \/ build_recommendations \/ build_feature_store
        \/ train_propensity_model)
         => OutputsOf(behavior_db', {"events"})
               = OutputsOf(behavior_db, {"events"})]_vars

\* Every one of the seven stages has run on a non-empty events table and
\* the stages that write tables have written them; the events table still
\* holds the rows of the raw file
C27_Witness ==
    /\ Has(behavior_db, "events")
    /\ behavior_db["events"] # {}
    /\ behavior_db["events"] = parquet
    /\ \A s \in ProcessingStages : outcome[s] # "idle"
    /\ {"dim_users", "fact_sessions", "analysis_rfm_segments",
        "analysis_churn_risk", "predictions_product_affinity",
        "features_users"} \subseteq DOMAIN behavior_db
    /\ df # {}

-----------------------------------------------------------------------------
(* The training set of the propensity model, checked under SpecPropensity *)

\* The events before 2019-11-01
BeforeNovember(ev) == {e \in ev : e.event_time < NovemberFirst}

\* The feature columns of a row of the training set
FeatureColumns(r) ==
    [user_id |-> r.user_id, oct_events |-> r.oct_events,
     oct_sessions |-> r.oct_sessions, oct_views |-> r.oct_views,
     oct_carts |-> r.oct_carts, oct_removes |-> r.oct_removes,
     active_span_days |-> r.active_span_days, recency_oct |-> r.recency_oct]

\* C30: the training set that train_propensity_model loads has one row
\* for each user with an event before 2019-11-01 and no other row; target
\* is 1 exactly for the users with a purchase at or after 2019-11-01; and
\* the feature columns are those of any other Event Store that has the
\* same events before 2019-11-01, so that no event from the target period
\* leaks into a feature.
C30_TemporalSplitNoLeakage ==
    [][(train_propensity_model /\ Has(behavior_db, "events")) =>
         LET ev == behavior_db["events"]
         IN  /\ {r.user_id : r \in df'} = UsersOf(BeforeNovember(ev))
             /\ \A r, q \in df' : r.user_id = q.user_id => r = q
             /\ \A r \in df' :
                   /\ r.target \in {0, 1}
                   /\ r.target = 1 <=>
                        \E e \in ev : /\ e.user_id = r.user_id
                                      /\ e.event_type = "purchase"
                                      /\ e.event_time >= NovemberFirst
             /\ \A other \in TrainStores :
                   BeforeNovember(other) = BeforeNovember(ev) =>
                      {FeatureColumns(r) : r \in query_train(other)}
                         = {FeatureColumns(r) : r \in df'}]_vars

\* The training set holds a user with target 1, whose purchase is in the
\* first tick of November, and a user with target 0 who bought in October;
\* the events table also holds a user who is only seen in November
C30_Witness ==
    /\ outcome["train_propensity_model"] # "idle"
    /\ Has(behavior_db, "events")
    /\ \E r, q \in df : r.target = 1 /\ q.target = 0
    /\ \E e \in behavior_db["events"] :
          e.event_time = NovemberFirst /\ e.event_type = "purchase"
    /\ \E e \in BeforeNovember(behavior_db["events"]) :
          e.event_type = "purchase" /\ \E q \in df : q.user_id = e.user_id /\ q.target = 0
    /\ \E e \in behavior_db["events"] : \A r \in df : r.user_id # e.user_id

-----------------------------------------------------------------------------
(* The feature store and the stages before it, checked under SpecSessions *)

FeatureInputStages == {"create_dimensional_models", "create_sessions",
                       "perform_segmentation"}
FeatureInputTables == {"dim_users", "fact_sessions", "analysis_rfm_segments"}

\* C28: a run of build_feature_store made before create_dimensional_models,
\* create_sessions and perform_segmentation have all ended without error
\* creates no features_users table and leaves an existing one as it was;
\* and whenever features_users exists, dim_users, fact_sessions and
\* analysis_rfm_segments exist.
C28_FeatureStoreAfterItsInputs ==
    /\ Has(behavior_db, "features_users") => FeatureInputTables \subseteq DOMAIN behavior_db
    /\ [][(/\ build_feature_store
           /\ \E s \in FeatureInputStages : outcome[s] # "ok")
            => OutputsOf(behavior_db', {"features_users"})
                  = OutputsOf(behavior_db, {"features_users"})]_vars

\* What holds of C28: build_feature_store writes features_users exactly when
\* its three input tables exist, whether or not the stages that wrote them
\* ended with an error; so features_users never exists without them.
C28_FeatureStoreNeedsItsTables ==
    /\ Has(behavior_db, "features_users") => FeatureInputTables \subseteq DOMAIN behavior_db
    /\ [][build_feature_store =>
            IF FeatureInputTables \subseteq DOMAIN behavior_db
            THEN Has(behavior_db', "features_users")
                 /\ outcome'["build_feature_store"] = "ok"
            ELSE behavior_db' = behavior_db
                 /\ outcome'["build_feature_store"] = "failed"]_vars

\* features_users has been built although create_sessions ended with an error
C28_BuiltAfterFailedSessionizer ==
    /\ Has(behavior_db, "features_users")
    /\ outcome["create_sessions"] = "failed"
    /\ outcome["build_feature_store"] = "ok"
    /\ behavior_db["fact_sessions"] = {}
    /\ behavior_db["features_users"] # {}


\* C29: features_users holds exactly one row for every user of dim_users and
\* no row for anyone else: neither LEFT JOIN drops a user or repeats one,
\* analysis_rfm_segments and session_features having at most one row per
\* user_id.  features_users exists only once the three tables it reads do.
C29_FeatureStoreCardinality ==
    Has(behavior_db, "features_users") =>
        /\ \A u \in behavior_db["dim_users"] :
              Cardinality({f \in behavior_db["features_users"] : f.user_id = u.user_id}) = 1
        /\ \A f \in behavior_db["features_users"] :
              \E u \in behavior_db["dim_users"] : u.user_id = f.user_id
        /\ Cardinality(behavior_db["features_users"]) = Cardinality(behavior_db["dim_users"])
        /\ \A u \in behavior_db["dim_users"] :
              /\ Cardinality({r \in behavior_db["analysis_rfm_segments"] : r.user_id = u.user_id}) <= 1
              /\ Cardinality({r \in query_session_aggs_safe(behavior_db["fact_sessions"])
                                : r.user_id = u.user_id}) <= 1

\* The four stages have run without error; one user has two sessions that
\* differ, another user has no segment row
C29_Witness ==
    /\ \A s \in FeatureInputStages \cup {"build_feature_store"} : outcome[s] = "ok"
    /\ Has(behavior_db, "features_users")
    /\ Cardinality(behavior_db["dim_users"]) >= 2
    /\ \E u \in behavior_db["dim_users"] :
          /\ Cardinality({r \in behavior_db["fact_sessions"] : r.user_id = u.user_id}) >= 2
          /\ Cardinality(query_session_aggs_safeBug(
                 {r \in behavior_db["fact_sessions"] : r.user_id = u.user_id})) >= 2
    /\ \E f \in behavior_db["features_users"] : f.rfm_segment = "Browser"
    /\ \E f \in behavior_db["features_users"] : f.rfm_segment # "Browser"

-----------------------------------------------------------------------------
(* The database file and its lock, checked under SpecLock *)

\* The file exists once a stage has written a table or the dashboard has
\* connected, and the dashboard connects to an existing file only
DatabaseFileKept ==
    /\ behavior_db # EmptyDB => db_path_exists
    /\ con_cached => db_path_exists
    /\ [][db_path_exists => db_path_exists']_vars

\* While the dashboard holds its connection a stage raises at its connect,
\* writes nothing, and its caller sees the exception
StagesRaiseUnderLock ==
    [][(con_cached /\ (ingest_data \/ create_dimensional_models \/ run_ab_simulation)
          /\ ~(ingest_data /\ FileMissing(parquet_exists)))
         => /\ behavior_db' = behavior_db
            /\ \E s \in Stages : /\ outcome'[s] = "raised"
                                 /\ caller_sees'[s] = "exception"
                                 /\ \A t \in Stages \ {s} :
                                       outcome'[t] = outcome[t]]_vars

\* The raw file was removed after a successful ingestion, the next
\* ingestion failed, and the dashboard still reads the pipeline's database
DashboardAfterRawFileRemoved ==
    /\ ~parquet_exists
    /\ outcome["ingest_data"] = "failed"
    /\ Has(behavior_db, "events")
    /\ rendered["Project_Overview"] = "values"
    /\ con_cached

\* The file was created by run_ab_simulation alone, and the dashboard reads
\* a database without a table
DashboardOnEmptyDatabase ==
    /\ outcome["run_ab_simulation"] = "failed"
    /\ behavior_db = EmptyDB
    /\ rendered["Home"] = "fallback"

\* A stage that raised under the lock ran well after the dashboard stopped
StageAfterDashboardStopped ==
    /\ ~con_cached
    /\ rendered["Home"] # "none"
    /\ outcome["create_dimensional_models"] = "ok"
    /\ outcome["ingest_data"] = "raised"

====
